---- MODULE Spec2Model ----
(***************************************************************************)
(* DistributedQ: a Redis-backed task queue (pkg/queue/client.go), the      *)
(* worker loop that drives it (cmd/worker/main.go) and the broker-side     *)
(* scripts they run.  The broker's lists, sorted set and hashes are the    *)
(* state; every broker command, MULTI/EXEC pipeline and Lua script is one  *)
(* atomic step.                                                            *)
(*                                                                         *)
(* Time is counted in units of 100 ms (the base of the retry backoff);     *)
(* time.Now().Unix() is therefore now \div UnitsPerSecond.                 *)
(***************************************************************************)
EXTENDS Integers, Sequences, FiniteSets, TLC

(***************************************************************************)
(* Bounds of the model                                                     *)
(***************************************************************************)
\* Spec: engine clients calling the queue API in any interleaving
MaxEnqueues == 2
MaxRetryCount == 1
MaxTime == 2
ClockLag == 1
\* SpecQuiescent: one caller at a time
MaxEnqueuesQ == 3
\* SpecHistory: Enqueue / Dequeue / Complete only
MaxEnqueuesH == 3
\* SpecWorker: the worker loop of cmd/worker
MaxEnqueuesW == 1
MaxTimeW == 14
\* SpecPromote: retries and promotions, without Complete and Fail
MaxEnqueuesP == 2
MaxRetryCountP == 1
MaxTimeP == 3
\* SpecBackoff: Retry of a task carrying any RetryCount up to the bound
MaxRetryCountB == 64
MaxTimeB == 1
\* SpecFaults: the worker loop with broker calls that return an error
MaxEnqueuesF == 2
MaxTimeF == 2
\* SpecRateLimit: rates, bursts, Allow calls and clock units (100 ms each)
MaxRate == 2
MaxBurst == 2
MaxAllowCalls == 4
MaxTimeR == 21
\* SpecResults: Enqueue calls, SetResult calls, 100 ms steps after a long sleep,
\* and the clock
MaxEnqueuesS == 1
MaxSets == 2
MaxShortSleeps == 1
MaxTimeS == 864001
\* SpecCron: job goroutines started in all, and the clock
MaxCronJobs == 2
MaxTimeC == 21
\* SpecServer: requests served
MaxRequests == 2
\* SpecCrash: Enqueue calls, retries per task, and the clock
MaxEnqueuesX == 2
MaxRetryCountX == 1
MaxTimeX == 1
\* SpecRouting: Enqueue calls and the largest priority value submitted
MaxEnqueuesE == 3
MaxPriority == 3
\* SpecAck: Enqueue calls
MaxEnqueuesA == 3
\* SpecPayload: Enqueue calls, retries per task, and the clock
MaxEnqueuesJ == 2
MaxRetryCountJ == 1
MaxTimeJ == 2
\* SpecReuse: Enqueue calls and retries per task
MaxEnqueuesU == 2
MaxRetryCountU == 1
\* SpecLoad: the clock
MaxTimeL == 14
\* SpecInspect: Enqueue calls, retries per task, the clock, and the
\* InspectQueue and GetQueueDepths calls
MaxEnqueuesI == 2
MaxRetryCountI == 1
MaxTimeI == 2
MaxInspects == 1
\* SpecLoops: Enqueue calls and the clock
MaxEnqueuesK == 1
MaxTimeK == 3
\* SpecLive: Enqueue calls, and the clock while no task is waiting
MaxEnqueuesV == 2
MaxTimeV == 1

(***************************************************************************)
(* Program constants                                                       *)
(***************************************************************************)
PriorityLow == 0
PriorityDefault == 1
PriorityHigh == 2
\* LTRIM completed_queue -100 -1
CompletedKeep == 100
\* if task.RetryCount < 3
MaxRetries == 3
\* limit := 10; burst := 20
RateLimit == 10
RateBurst == 20
\* 100 * time.Millisecond is one unit of model time
BackoffBase == 1
UnitsPerSecond == 10

Procs == {"p1", "p2"}
QueueHigh == "queue:high"
QueueDefault == "queue:default"
QueueLow == "queue:low"
\* a Dequeue that scans the ready queues lowest priority first
queuesLowFirst == <<QueueLow, QueueDefault, QueueHigh>>

\* queues := []string{"queue:high", "queue:default", "queue:low"}
queues == <<QueueHigh, QueueDefault, QueueLow>>
QueueNames == {QueueHigh, QueueDefault, QueueLow}
Priorities == {PriorityLow, PriorityDefault, PriorityHigh}
TaskTypes == {"email"}
TaskIds == {1, 2}

RECURSIVE Pow2(_)
Pow2(n) == IF n = 0 THEN 1 ELSE 2 * Pow2(n - 1)

(***************************************************************************)
(* Payload interface{} and encoding/json.  A Go value is a pair of its     *)
(* dynamic type and its content; a JSON text is a pair of its lexical kind *)
(* and its content.  Integers are held as their 8 bytes, least significant *)
(* first, because the values of interest exceed 2^31.                      *)
(*   Go values:  <<"string", s>>, <<"int64", w>>, <<"float64", w>> (a      *)
(*               float64 holding the integer w), <<"raw", e>> (the         *)
(*               json.RawMessage 1e<e>)                                    *)
(*   JSON texts: <<"quoted", s>>, <<"numeral", w>> (decimal digits of w),  *)
(*               <<"exp", e>> (the text 1e<e>)                             *)
(***************************************************************************)
\* bit i of an 8-byte integer
Bit(x, i) == (x[(i \div 8) + 1] \div Pow2(i % 8)) % 2
\* the integer whose bits are f[0..63]
FromBits(f) ==
    [k \in 1..8 |->
        LET b(j) == f[8 * (k - 1) + j] * Pow2(j)
        IN  b(0) + b(1) + b(2) + b(3) + b(4) + b(5) + b(6) + b(7)]
\* position of the leading one bit, -1 for zero
TopBit(x) ==
    IF \A i \in 0..63 : Bit(x, i) = 0 THEN -1
    ELSE CHOOSE i \in 0..63 :
            Bit(x, i) = 1 /\ \A j \in (i + 1)..63 : Bit(x, j) = 0
\* x + 2^s
AddPow2(x, s) ==
    LET z == CHOOSE i \in s..63 :
                 Bit(x, i) = 0 /\ \A j \in s..(i - 1) : Bit(x, j) = 1
    IN  FromBits([i \in 0..63 |->
                    IF i < s \/ i > z THEN Bit(x, i)
                    ELSE IF i = z THEN 1 ELSE 0])

\* float64 mantissa: 52 stored bits and the implicit leading one
MantissaBits == 53
\* strconv.ParseFloat(digits, 64) for a non-negative integer below 2^63:
\* the nearest float64, ties to the even mantissa
Float64OfInt(x) ==
    LET h == TopBit(x)
        s == h - (MantissaBits - 1)
        trunc == FromBits([i \in 0..63 |-> IF i < s THEN 0 ELSE Bit(x, i)])
        half == Bit(x, s - 1) = 1
        sticky == \E i \in 0..(s - 2) : Bit(x, i) = 1
        odd == Bit(x, s) = 1
    IN  IF h < MantissaBits THEN x
        ELSE IF half /\ (sticky \/ odd) THEN AddPow2(trunc, s)
        ELSE trunc

\* largest decimal exponent of a finite float64
Float64MaxExp == 308

\* json.Marshal of a payload value: a string is quoted, an int64 is written
\* in decimal, an integral float64 below 1e21 is written without exponent,
\* a json.RawMessage is copied
MarshalValue(v) ==
    CASE v[1] = "string" -> <<"quoted", v[2]>>
      [] v[1] = "int64" -> <<"numeral", v[2]>>
      [] v[1] = "float64" -> <<"numeral", v[2]>>
      [] v[1] = "raw" -> <<"exp", v[2]>>

\* json.Unmarshal into interface{}, when it succeeds: a string stays a
\* string and a number in decimal digits becomes the nearest float64
UnmarshalValue(text) ==
    CASE text[1] = "quoted" -> <<"string", text[2]>>
      [] text[1] = "numeral" -> <<"float64", Float64OfInt(text[2])>>

(***************************************************************************)
(* tasks.Task and its JSON form.  json.Marshal writes the fields in struct *)
(* order; the encoded form is the tuple of the field values in that order. *)
(***************************************************************************)
\* a task carrying the given payload value
TaskWith(id, type, payload, created, rc, prio) ==
    [id |-> id, type |-> type, payload |-> payload, created_at |-> created,
     retry_count |-> rc, priority |-> prio]

Task(id, type, created, rc, prio) ==
    TaskWith(id, type, <<"string", "p">>, created, rc, prio)

\* json.Marshal(task)
Encode(t) ==
    <<t.id, t.type, MarshalValue(t.payload), t.created_at, t.retry_count,
      t.priority>>

\* json.Unmarshal([]byte(result), &task) returns an error: the payload is a
\* number outside float64's range
DecodeFails(r) == r[3][1] = "exp" /\ r[3][2] > Float64MaxExp

\* json.Unmarshal([]byte(result), &task), when it succeeds
Decode(r) ==
    [id |-> r[1], type |-> r[2], payload |-> UnmarshalValue(r[3]),
     created_at |-> r[4], retry_count |-> r[5], priority |-> r[6]]

NoTask == Task(0, "", 0, 0, 0)
NoRaw == <<>>

\* the tasks a producer may submit: retry_count 0, stamped by the caller
TaskInputs ==
    {Task(id, ty, 0, 0, p) : id \in TaskIds, ty \in TaskTypes, p \in Priorities}

(***************************************************************************)
(* Broker commands                                                         *)
(***************************************************************************)
\* LREM key 0 value: every occurrence is removed
LRemAll(list, v) == SelectSeq(list, LAMBDA x : x # v)

RECURSIVE LRemFirst(_, _)
\* LREM key 1 value: remove the first occurrence, if any
LRemFirst(list, v) ==
    IF list = <<>> THEN <<>>
    ELSE IF Head(list) = v THEN Tail(list)
    ELSE <<Head(list)>> \o LRemFirst(Tail(list), v)

\* LTRIM key 0 n-1: keep the leading n entries
LTrimHead(list, n) ==
    IF Len(list) <= n THEN list
    ELSE SubSeq(list, 1, n)

\* LTRIM key -n -1: keep the trailing n entries
LTrimTail(list, n) ==
    IF Len(list) <= n THEN list
    ELSE SubSeq(list, Len(list) - n + 1, Len(list))

\* ZADD key score member: a member already present only has its score updated
ZAdd(z, m, s) == {e \in z : e.member # m} \cup {[member |-> m, score |-> s]}

\* byte order of two encoded tasks (rank of the only type string is 0).
\* Of two payload texts, '"' sorts before the digits, 1e<e> before the
\* 16-digit numerals, and numerals of equal length as numbers
RawKey(r) ==
    LET text == r[3]
        payloadKey ==
            CASE text[1] = "quoted" -> <<0, 0, 0, 0, 0, 0, 0, 0, 0>>
              [] text[1] = "exp" -> <<1, 0, 0, 0, 0, 0, 0, 0, 0>>
              [] text[1] = "numeral" -> <<2>> \o [k \in 1..8 |-> text[2][9 - k]]
    IN  <<r[1], 0>> \o payloadKey \o <<r[4], r[5], r[6]>>

RECURSIVE LexLeq(_, _)
LexLeq(a, b) ==
    IF a = <<>> THEN TRUE
    ELSE IF Head(a) < Head(b) THEN TRUE
    ELSE IF Head(a) > Head(b) THEN FALSE
    ELSE LexLeq(Tail(a), Tail(b))

\* a range read in descending order (ZREVRANGEBYSCORE)
ZGeq(e, f) ==
    \/ e.score > f.score
    \/ e.score = f.score /\ LexLeq(RawKey(f.member), RawKey(e.member))

\* sorted-set order: by score, ties by member
ZLeq(e, f) ==
    \/ e.score < f.score
    \/ e.score = f.score /\ LexLeq(RawKey(e.member), RawKey(f.member))

RECURSIVE ZSorted(_)
ZSorted(S) ==
    IF S = {} THEN <<>>
    ELSE LET m == CHOOSE e \in S : \A f \in S : ZLeq(e, f)
         IN  <<m.member>> \o ZSorted(S \ {m})

\* ZRANGEBYSCORE key -inf max
ZRangeByScore(z, max) == ZSorted({e \in z : e.score <= max})

\* ZREMRANGEBYSCORE key -inf max
ZRemRangeByScore(z, max) == {e \in z : e.score > max}


\* backoff := time.Duration(1<<task.RetryCount) * 100 * time.Millisecond
Backoff(rc) == Pow2(rc) * BackoffBase

(***************************************************************************)
(* int64 arithmetic of time.Duration: a value is its 8 bytes, least        *)
(* significant first, in two's complement; results wrap at 2^64.           *)
(***************************************************************************)
Int64Bytes == 8
Word(n, width) == [i \in 1..width |-> IF i = 1 THEN n ELSE 0]

\* x * m truncated to the width of x, for a small m
RECURSIVE MulFrom(_, _, _, _)
MulFrom(x, m, i, carry) ==
    IF i > Len(x) THEN <<>>
    ELSE LET v == x[i] * m + carry
         IN  <<v % 256>> \o MulFrom(x, m, i + 1, v \div 256)
Mul(x, m) == MulFrom(x, m, 1, 0)

\* x << n: whole bytes move up by n \div 8, bits by n % 8; bits shifted out
\* are lost
Shl(x, n) ==
    LET q == n \div 8
        f == Pow2(n % 8)
        byte(j) == IF j >= 1 /\ j <= Len(x) THEN x[j] ELSE 0
    IN  [i \in 1..Len(x) |-> ((byte(i - q) * f) % 256) + ((byte(i - q - 1) * f) \div 256)]

IsNegative(x) == x[Len(x)] >= 128
IsZero(x) == \A i \in 1..Len(x) : x[i] = 0

\* time.Duration(1<<rc) * 100 * time.Millisecond at the given width
DurationAt(rc, width) == Mul(Mul(Shl(Word(1, width), rc), 100), 1000000)

\* the int64 the code computes, in nanoseconds
BackoffNanos(rc) == DurationAt(rc, Int64Bytes)

VARIABLES
    queue,              \* the three ready lists
    processing_queue,   \* in-flight list
    delayed_queue,      \* sorted set: {[member, score]}
    dead_letter_queue,
    completed_queue,
    ratelimit,          \* per task type: the hash ratelimit:<type>, or NoBucket
    results,            \* per task id: the string result:<id>, or NoResult
    now,                \* wall clock, units of 100 ms
    pc, qi, task, raw,  \* per process: position, Dequeue's loop index, locals
    cancelled,          \* per process: ctx.Done() is closed
    enqCount,           \* history: number of Enqueue calls per task id
    nilSeen,            \* history: queues that answered redis.Nil in the current Dequeue
    handlerFails,       \* history: handler failures per task id
    doneLog,            \* history: every token passed to a Complete that ran
    retries,            \* history: number of Retry pipelines that ran, per task id
    logged,             \* history: per process, the calls whose error it logged
    allowLog,           \* history: time and answer of each Allow a test client made
    cronState,          \* the cron registrar: "idle", "running" or "stopped"
    cronEntries,        \* per registered entry: the task its closure captured
    cronJobs,           \* the job goroutines started and not yet finished
    apiKey,             \* the key the server was configured with ("" = none)
    setLog,             \* history: every SetResult that ran
    cronLog,            \* history: every Enqueue a cron job made
    responses           \* history: every request served and its answer

vars == <<queue, processing_queue, delayed_queue, dead_letter_queue, completed_queue,
          ratelimit, results, now, pc, qi, task, raw, cancelled,
          enqCount, nilSeen, handlerFails, doneLog, retries, logged, allowLog,
          cronState, cronEntries, cronJobs, apiKey, setLog, cronLog, responses>>

brokerVars == <<queue, processing_queue, delayed_queue, dead_letter_queue, completed_queue>>
storeVars == <<ratelimit, results>>
workerVars == <<pc, qi, task, raw, nilSeen>>
historyVars == <<handlerFails, doneLog, retries, logged, allowLog>>
\* the history written by the engine's operations, and the rest
opHistory == <<doneLog, retries>>
callerHistory == <<handlerFails, logged, allowLog>>
\* the cron registrar and the HTTP server
cronVars == <<cronState, cronEntries, cronJobs>>
serviceVars == <<cronVars, apiKey, setLog, cronLog, responses>>

NoBucket == [tokens |-> -1, last_refill |-> -1]
NoResult == [data |-> <<>>, expire_at |-> -1]

\* an empty broker, the clock at 0, every process at the top of its loop
Init ==
    /\ queue = [q \in QueueNames |-> <<>>]
    /\ processing_queue = <<>>
    /\ delayed_queue = {}
    /\ dead_letter_queue = <<>>
    /\ completed_queue = <<>>
    /\ ratelimit = [ty \in TaskTypes |-> NoBucket]
    /\ results = [id \in TaskIds |-> NoResult]
    /\ now = 0
    /\ pc = [p \in Procs |-> "dequeue"]
    /\ qi = [p \in Procs |-> 1]
    /\ task = [p \in Procs |-> NoTask]
    /\ raw = [p \in Procs |-> NoRaw]
    /\ cancelled = [p \in Procs |-> FALSE]
    /\ enqCount = [id \in TaskIds |-> 0]
    /\ nilSeen = [p \in Procs |-> {}]
    /\ handlerFails = [id \in TaskIds |-> 0]
    /\ doneLog = <<>>
    /\ retries = [id \in TaskIds |-> 0]
    /\ logged = [p \in Procs |-> {}]
    /\ allowLog = <<>>
    /\ cronState = "idle"
    /\ cronEntries = <<>>
    /\ cronJobs = {}
    /\ apiKey = ""
    /\ setLog = <<>>
    /\ cronLog = <<>>
    /\ responses = <<>>

(***************************************************************************)
(* Client.Enqueue                                                          *)
(***************************************************************************)
\* a selection by range: 2 and above is high, 0 and below is low
QueueForRange(t) ==
    IF t.priority >= PriorityHigh THEN QueueHigh
    ELSE IF t.priority <= PriorityLow THEN QueueLow
    ELSE QueueDefault

QueueFor(t) ==
    IF t.priority = PriorityHigh THEN QueueHigh
    ELSE IF t.priority = PriorityLow THEN QueueLow
    ELSE QueueDefault

RECURSIVE SumOver(_, _)
SumOver(f, S) ==
    IF S = {} THEN 0
    ELSE LET x == CHOOSE y \in S : TRUE IN f[x] + SumOver(f, S \ {x})
\* number of Enqueue calls made so far
EnqCalls == SumOver(enqCount, TaskIds)

\* an Enqueue that pushes at the left end (LPUSH)
EnqueueLeft(t, maxCalls) ==
    /\ EnqCalls < maxCalls
    /\ queue' = [queue EXCEPT ![QueueFor(t)] = <<Encode(t)>> \o @]
    /\ enqCount' = [enqCount EXCEPT ![t.id] = @ + 1]
    /\ UNCHANGED <<processing_queue, delayed_queue, dead_letter_queue, completed_queue,
                   storeVars, now, workerVars, cancelled, serviceVars, historyVars>>

Enqueue(t, maxCalls) ==
    /\ EnqCalls < maxCalls
    /\ queue' = [queue EXCEPT ![QueueFor(t)] = Append(@, Encode(t))]
    /\ enqCount' = [enqCount EXCEPT ![t.id] = @ + 1]
    /\ UNCHANGED <<processing_queue, delayed_queue, dead_letter_queue, completed_queue,
                   storeVars, now, workerVars, cancelled, serviceVars, historyVars>>

(***************************************************************************)
(* Client.Dequeue: one BLMOVE per ready queue, in the order of queues.     *)
(* pc = "dequeue" with qi = 1 is also the top of the caller's loop.        *)
(***************************************************************************)
\* a Dequeue that reads the head (LINDEX) and pushes it without popping it
BLMoveHitCopy(p) ==
    /\ pc[p] = "dequeue"
    /\ queue[queues[qi[p]]] # <<>>
    /\ LET result == Head(queue[queues[qi[p]]])
       IN  /\ processing_queue' = Append(processing_queue, result)
           /\ task' = [task EXCEPT ![p] = Decode(result)]
           /\ raw' = [raw EXCEPT ![p] = result]
    /\ pc' = [pc EXCEPT ![p] = "holding"]
    /\ qi' = [qi EXCEPT ![p] = 1]
    /\ nilSeen' = [nilSeen EXCEPT ![p] = {}]
    /\ UNCHANGED <<queue, delayed_queue, dead_letter_queue, completed_queue, storeVars,
                   now, cancelled, serviceVars, enqCount, historyVars>>

\* a Dequeue that moves from the RIGHT end of the ready queue
BLMoveHitRight(p) ==
    /\ pc[p] = "dequeue"
    /\ queue[queues[qi[p]]] # <<>>
    /\ LET q == queues[qi[p]]
           result == queue[q][Len(queue[q])]
       IN  /\ queue' = [queue EXCEPT ![q] = SubSeq(@, 1, Len(@) - 1)]
           /\ processing_queue' = Append(processing_queue, result)
           /\ task' = [task EXCEPT ![p] = Decode(result)]
           /\ raw' = [raw EXCEPT ![p] = result]
    /\ pc' = [pc EXCEPT ![p] = "holding"]
    /\ qi' = [qi EXCEPT ![p] = 1]
    /\ nilSeen' = [nilSeen EXCEPT ![p] = {}]
    /\ UNCHANGED <<delayed_queue, dead_letter_queue, completed_queue, storeVars,
                   now, cancelled, serviceVars, enqCount, historyVars>>

\* BLMOVE q processing_queue LEFT RIGHT answered with an element: Dequeue
\* returns, and its loop is left.  When the element does not unmarshal, it
\* returns the error and no task, and the caller starts its next Dequeue
BLMoveHit(p) ==
    /\ pc[p] = "dequeue"
    /\ queue[queues[qi[p]]] # <<>>
    /\ LET q == queues[qi[p]]
           result == Head(queue[q])
       IN  /\ queue' = [queue EXCEPT ![q] = Tail(@)]
           /\ processing_queue' = Append(processing_queue, result)
           /\ IF DecodeFails(result)
              THEN UNCHANGED <<pc, task, raw>>
              ELSE /\ task' = [task EXCEPT ![p] = Decode(result)]
                   /\ raw' = [raw EXCEPT ![p] = result]
                   /\ pc' = [pc EXCEPT ![p] = "holding"]
    /\ qi' = [qi EXCEPT ![p] = 1]
    /\ nilSeen' = [nilSeen EXCEPT ![p] = {}]
    /\ UNCHANGED <<delayed_queue, dead_letter_queue, completed_queue, storeVars,
                   now, cancelled, serviceVars, enqCount, historyVars>>

\* BLMOVE timed out (redis.Nil): next queue, or return redis.Nil after the last
BLMoveNil(p) ==
    /\ pc[p] = "dequeue"
    /\ queue[queues[qi[p]]] = <<>>
    /\ IF qi[p] < Len(queues)
       THEN /\ qi' = [qi EXCEPT ![p] = @ + 1]
            /\ nilSeen' = [nilSeen EXCEPT ![p] = @ \cup {queues[qi[p]]}]
       ELSE /\ qi' = [qi EXCEPT ![p] = 1]
            /\ nilSeen' = [nilSeen EXCEPT ![p] = {}]
    /\ UNCHANGED <<brokerVars, storeVars, now, pc, task, raw, cancelled, serviceVars, enqCount,
                   historyVars>>

(***************************************************************************)
(* Client.Complete / Retry / Fail: one MULTI/EXEC pipeline each            *)
(***************************************************************************)
\* an Ack that removes every occurrence (LREM with count 0)
AckOpAll(rawTask) ==
    /\ processing_queue' = LRemAll(processing_queue, rawTask)
    /\ UNCHANGED <<queue, delayed_queue, dead_letter_queue, completed_queue,
                   doneLog, retries>>

\* Client.Ack: LREM processing_queue 1 rawTask
AckOp(rawTask) ==
    /\ processing_queue' = LRemFirst(processing_queue, rawTask)
    /\ UNCHANGED <<queue, delayed_queue, dead_letter_queue, completed_queue,
                   doneLog, retries>>

\* a Complete whose pipeline lacks the LREM
CompleteOpNoRemove(rawTask) ==
    /\ completed_queue' = LTrimTail(Append(completed_queue, rawTask), CompletedKeep)
    /\ doneLog' = Append(doneLog, rawTask)
    /\ retries' = retries
    /\ UNCHANGED <<queue, processing_queue, delayed_queue, dead_letter_queue>>

CompleteOp(rawTask) ==
    /\ processing_queue' = LRemFirst(processing_queue, rawTask)
    /\ completed_queue' = LTrimTail(Append(completed_queue, rawTask), CompletedKeep)
    /\ doneLog' = Append(doneLog, rawTask)
    /\ retries' = retries
    /\ UNCHANGED <<queue, delayed_queue, dead_letter_queue>>

\* a Retry whose pipeline lacks the LREM
RetryOpNoRemove(t, rawTask, at) ==
    LET retried == [t EXCEPT !.retry_count = @ + 1]
    IN  /\ delayed_queue' = ZAdd(delayed_queue, Encode(retried), at + Backoff(retried.retry_count))
        /\ retries' = [retries EXCEPT ![t.id] = @ + 1]
        /\ UNCHANGED <<queue, processing_queue, dead_letter_queue, completed_queue, doneLog>>

\* a Retry that stores the task without incrementing RetryCount
RetryOpNoIncrement(t, rawTask, at) ==
    LET processAt == at + Backoff(t.retry_count + 1)
    IN  /\ delayed_queue' = ZAdd(delayed_queue, Encode(t), processAt)
        /\ processing_queue' = LRemFirst(processing_queue, rawTask)
        /\ retries' = [retries EXCEPT ![t.id] = @ + 1]
        /\ UNCHANGED <<queue, dead_letter_queue, completed_queue, doneLog>>

\* a Retry whose pipeline lacks the ZADD
RetryOpNoAdd(t, rawTask, at) ==
    /\ processing_queue' = LRemFirst(processing_queue, rawTask)
    /\ retries' = [retries EXCEPT ![t.id] = @ + 1]
    /\ UNCHANGED <<queue, delayed_queue, dead_letter_queue, completed_queue, doneLog>>

RetryOp(t, rawTask, at) ==
    LET retried == [t EXCEPT !.retry_count = @ + 1]
        processAt == at + Backoff(retried.retry_count)
    IN  /\ delayed_queue' = ZAdd(delayed_queue, Encode(retried), processAt)
        /\ processing_queue' = LRemFirst(processing_queue, rawTask)
        /\ retries' = [retries EXCEPT ![t.id] = @ + 1]
        /\ UNCHANGED <<queue, dead_letter_queue, completed_queue, doneLog>>

\* a Fail that pushes to the dead-letter list and leaves the in-flight list alone
FailOpNoRemove(t, rawTask) ==
    /\ dead_letter_queue' = Append(dead_letter_queue, Encode(t))
    /\ UNCHANGED <<queue, processing_queue, delayed_queue, completed_queue, opHistory>>

FailOp(t, rawTask) ==
    /\ dead_letter_queue' = Append(dead_letter_queue, Encode(t))
    /\ processing_queue' = LRemFirst(processing_queue, rawTask)
    /\ UNCHANGED <<queue, delayed_queue, completed_queue, opHistory>>

\* back to the top of the caller's loop: the next Dequeue starts at queues[1]
Continue(p) ==
    /\ pc' = [pc EXCEPT ![p] = "dequeue"]
    /\ qi' = [qi EXCEPT ![p] = 1]
    /\ nilSeen' = [nilSeen EXCEPT ![p] = {}]

\* ... dropping the locals of the finished iteration
Release(p) ==
    /\ Continue(p)
    /\ task' = [task EXCEPT ![p] = NoTask]
    /\ raw' = [raw EXCEPT ![p] = NoRaw]

\* a client holding the token Dequeue returned calls Complete
Complete(p) ==
    /\ pc[p] = "holding"
    /\ CompleteOp(raw[p])
    /\ Release(p)
    /\ UNCHANGED <<storeVars, now, cancelled, serviceVars, enqCount, callerHistory>>

\* a client holding the token Dequeue returned calls Ack
Ack(p) ==
    /\ pc[p] = "holding"
    /\ AckOp(raw[p])
    /\ Release(p)
    /\ UNCHANGED <<storeVars, now, cancelled, serviceVars, enqCount, callerHistory>>

Retry(p, maxRc) ==
    /\ pc[p] = "holding"
    /\ task[p].retry_count < maxRc
    /\ RetryOp(task[p], raw[p], now)
    /\ Release(p)
    /\ UNCHANGED <<storeVars, now, cancelled, serviceVars, enqCount, callerHistory>>

Fail(p) ==
    /\ pc[p] = "holding"
    /\ FailOp(task[p], raw[p])
    /\ Release(p)
    /\ UNCHANGED <<storeVars, now, cancelled, serviceVars, enqCount, callerHistory>>

(***************************************************************************)
(* Client.StartScheduler: each tick reads the clock and runs the script     *)
(***************************************************************************)
\* a script that pushes the due members but leaves them in the sorted set
PromoteScriptNoRemove(t) ==
    /\ queue' = [queue EXCEPT ![QueueDefault] = @ \o ZRangeByScore(delayed_queue, t)]
    /\ UNCHANGED <<processing_queue, delayed_queue, dead_letter_queue, completed_queue>>

\* a script that pushes each due member to the queue of its priority
PromoteScriptByPriority(t) ==
    LET due == ZRangeByScore(delayed_queue, t)
    IN  /\ delayed_queue' = ZRemRangeByScore(delayed_queue, t)
        /\ queue' = [q \in QueueNames |->
                        queue[q] \o SelectSeq(due, LAMBDA m : QueueFor(Decode(m)) = q)]
        /\ UNCHANGED <<processing_queue, dead_letter_queue, completed_queue>>

\* the Lua script, atomic on the broker
PromoteScript(t) ==
    LET due == ZRangeByScore(delayed_queue, t)
    IN  /\ delayed_queue' = ZRemRangeByScore(delayed_queue, t)
        /\ queue' = [queue EXCEPT ![QueueDefault] = @ \o due]
        /\ UNCHANGED <<processing_queue, dead_letter_queue, completed_queue>>

\* the clock value a replica read for this tick: the script may run later
ClockReadings == (IF now > ClockLag THEN now - ClockLag ELSE 0)..now

\* case <-ticker.C of replica p: read time.Now(), run the script with it
SchedulerTick(p) ==
    /\ ~cancelled[p]
    /\ \E t \in ClockReadings : PromoteScript(t)
    /\ UNCHANGED <<storeVars, now, workerVars, cancelled, serviceVars, enqCount, historyVars>>

AdvanceTime(maxT) ==
    /\ now < maxT
    /\ now' = now + 1
    /\ UNCHANGED <<brokerVars, storeVars, workerVars, cancelled, serviceVars, enqCount, historyVars>>

(***************************************************************************)
(* Spec: producers, two engine clients and two scheduler replicas          *)
(***************************************************************************)
Next ==
    \/ \E t \in TaskInputs : Enqueue(t, MaxEnqueues)
    \/ \E p \in Procs : BLMoveHit(p)
    \/ \E p \in Procs : BLMoveNil(p)
    \/ \E p \in Procs : Complete(p)
    \/ \E p \in Procs : Retry(p, MaxRetryCount)
    \/ \E p \in Procs : Fail(p)
    \/ \E p \in Procs : SchedulerTick(p)
    \/ AdvanceTime(MaxTime)

Spec == Init /\ [][Next]_vars

(***************************************************************************)
(* SpecPromote: producers, two clients that dequeue and retry, and two     *)
(* scheduler replicas, over a time long enough for retries made at         *)
(* different times to be due together.                                     *)
(***************************************************************************)
NextPromote ==
    \/ \E t \in TaskInputs : Enqueue(t, MaxEnqueuesP)
    \/ \E p \in Procs : BLMoveHit(p)
    \/ \E p \in Procs : BLMoveNil(p)
    \/ \E p \in Procs : Retry(p, MaxRetryCountP)
    \/ \E p \in Procs : SchedulerTick(p)
    \/ AdvanceTime(MaxTimeP)

SpecPromote == Init /\ [][NextPromote]_vars

(***************************************************************************)
(* SpecQuiescent: calls are made one at a time, as in TestPriorityDequeue: *)
(* nothing else runs while a Dequeue is between two of its BLMOVEs.        *)
(***************************************************************************)
\* no process other than p is inside a Dequeue call
NoOtherCall(p) == \A o \in Procs \ {p} : pc[o] = "holding" \/ qi[o] = 1

SerialEnqueue(t) ==
    /\ \A p \in Procs : pc[p] = "holding" \/ qi[p] = 1
    /\ Enqueue(t, MaxEnqueuesQ)

SerialBLMoveHit(p) == NoOtherCall(p) /\ BLMoveHit(p)

SerialBLMoveNil(p) == NoOtherCall(p) /\ BLMoveNil(p)

SerialComplete(p) == NoOtherCall(p) /\ Complete(p)

NextQuiescent ==
    \/ \E t \in TaskInputs : SerialEnqueue(t)
    \/ \E p \in Procs : SerialBLMoveHit(p)
    \/ \E p \in Procs : SerialBLMoveNil(p)
    \/ \E p \in Procs : SerialComplete(p)

SpecQuiescent == Init /\ [][NextQuiescent]_vars

(***************************************************************************)
(* SpecHistory: Enqueue, Dequeue and Complete only (no failures), from a   *)
(* broker that is empty or whose completed_queue already holds             *)
(* CompletedKeep - 1 tokens of tasks completed earlier.                    *)
(***************************************************************************)
\* ids of the tasks completed before the run starts
EarlierIds(n) == {100 + i : i \in 1..n}
EarlierRaw(i) == Encode(Task(100 + i, "email", 0, 0, PriorityDefault))

InitHistory ==
    \E n \in {0, CompletedKeep - 1} :
        /\ queue = [q \in QueueNames |-> <<>>]
        /\ processing_queue = <<>>
        /\ delayed_queue = {}
        /\ dead_letter_queue = <<>>
        /\ completed_queue = [i \in 1..n |-> EarlierRaw(i)]
        /\ ratelimit = [ty \in TaskTypes |-> NoBucket]
        /\ results = [id \in TaskIds |-> NoResult]
        /\ now = 0
        /\ pc = [p \in Procs |-> "dequeue"]
        /\ qi = [p \in Procs |-> 1]
        /\ task = [p \in Procs |-> NoTask]
        /\ raw = [p \in Procs |-> NoRaw]
        /\ cancelled = [p \in Procs |-> FALSE]
        /\ enqCount = [id \in TaskIds \cup EarlierIds(n) |-> IF id \in TaskIds THEN 0 ELSE 1]
        /\ nilSeen = [p \in Procs |-> {}]
        /\ handlerFails = [id \in TaskIds |-> 0]
        /\ doneLog = [i \in 1..n |-> EarlierRaw(i)]
        /\ retries = [id \in TaskIds |-> 0]
        /\ logged = [p \in Procs |-> {}]
        /\ allowLog = <<>>
        /\ cronState = "idle"
        /\ cronEntries = <<>>
        /\ cronJobs = {}
        /\ apiKey = ""
        /\ setLog = <<>>
        /\ cronLog = <<>>
        /\ responses = <<>>

NextHistory ==
    \/ \E t \in TaskInputs : Enqueue(t, MaxEnqueuesH)
    \/ \E p \in Procs : BLMoveHit(p)
    \/ \E p \in Procs : BLMoveNil(p)
    \/ \E p \in Procs : Complete(p)

SpecHistory == InitHistory /\ [][NextHistory]_vars

(***************************************************************************)
(* The worker process of cmd/worker: main, startWorker and the scheduler   *)
(* goroutine share one context.  A broker call made with a cancelled       *)
(* context returns context.Canceled and changes nothing.                   *)
(***************************************************************************)
Max(a, b) == IF a >= b THEN a ELSE b
Min(a, b) == IF a <= b THEN a ELSE b

\* a script that refills without the cap of the bucket's capacity
AllowScriptNoCap(rec, rate, burst, nowSec, requested) ==
    LET tokens == IF rec = NoBucket THEN burst ELSE rec.tokens
        last_refill == IF rec = NoBucket THEN nowSec ELSE rec.last_refill
        delta == Max(0, nowSec - last_refill)
        new_tokens == tokens + delta * rate
    IN  IF new_tokens >= requested
        THEN [allowed |-> TRUE,
              rec |-> [tokens |-> new_tokens - requested, last_refill |-> nowSec]]
        ELSE [allowed |-> FALSE,
              rec |-> [tokens |-> new_tokens, last_refill |-> nowSec]]

\* a script that allows without taking the requested tokens
AllowScriptNoConsume(rec, rate, burst, nowSec, requested) ==
    LET tokens == IF rec = NoBucket THEN burst ELSE rec.tokens
        last_refill == IF rec = NoBucket THEN nowSec ELSE rec.last_refill
        delta == Max(0, nowSec - last_refill)
        new_tokens == Min(burst, tokens + delta * rate)
    IN  [allowed |-> new_tokens >= requested,
         rec |-> [tokens |-> new_tokens, last_refill |-> nowSec]]

\* the token bucket script of Client.Allow: the answer and the record it stores
AllowScript(rec, rate, burst, nowSec, requested) ==
    LET tokens == IF rec = NoBucket THEN burst ELSE rec.tokens
        last_refill == IF rec = NoBucket THEN nowSec ELSE rec.last_refill
        delta == Max(0, nowSec - last_refill)
        new_tokens == Min(burst, tokens + delta * rate)
    IN  IF new_tokens >= requested
        THEN [allowed |-> TRUE,
              rec |-> [tokens |-> new_tokens - requested, last_refill |-> nowSec]]
        ELSE [allowed |-> FALSE,
              rec |-> [tokens |-> new_tokens, last_refill |-> nowSec]]

\* time.Now().Unix()
UnixSeconds == now \div UnitsPerSecond

(***************************************************************************)
(* Client.SetResult / Client.GetResult: the string result:<id>, written    *)
(* with a time to live of 24 hours                                         *)
(***************************************************************************)
\* 24*time.Hour
ResultTTL == 24 * 3600 * UnitsPerSecond

\* json.Marshal of a map[string]string with the key "status"
MarshalResult(v) == <<"status", v.status>>
\* json.Unmarshal of that text into a map[string]string
UnmarshalResult(data) == [status |-> data[2]]

\* a SET that keeps the time to live the key already has (SET ... KEEPTTL)
SetResultOpKeepTTL(id, data) ==
    results' = [results EXCEPT ![id] =
                   [data |-> data,
                    expire_at |-> IF results[id] = NoResult \/ now > results[id].expire_at
                                  THEN now + ResultTTL ELSE results[id].expire_at]]

\* c.rdb.Set(ctx, "result:"+taskID, data, 24*time.Hour)
SetResultOp(id, data) ==
    results' = [results EXCEPT ![id] = [data |-> data, expire_at |-> now + ResultTTL]]

\* c.rdb.Get(ctx, "result:"+taskID): the string, or redis.Nil when the key is
\* absent or its time to live has run out
GetResult(id) ==
    IF results[id] = NoResult \/ now > results[id].expire_at
    THEN [found |-> FALSE, data |-> <<>>]
    ELSE [found |-> TRUE, data |-> results[id].data]

\* a policy that retries once more: task.RetryCount <= 3
WorkerPolicyOffByOne(t, failed) ==
    IF failed
    THEN IF t.retry_count <= MaxRetries THEN "Retry" ELSE "Fail"
    ELSE "Complete"

\* the call startWorker makes once the handler returned
WorkerPolicy(t, failed) ==
    IF failed
    THEN IF t.retry_count < MaxRetries THEN "Retry" ELSE "Fail"
    ELSE "Complete"

\* json.Marshal(map[string]string{"status": ..., "timestamp": ...}): keys sorted
ResultJSON(sec) == <<"status", "completed", "timestamp", sec>>

\* client.<call>(ctx, ...) of process p, errors ignored by the caller;
\* Complete is followed by SetResult on the same context
BrokerCall(p, call, t, rawTask) ==
    IF cancelled[p]
    THEN UNCHANGED <<brokerVars, opHistory, results>>
    ELSE CASE call = "Retry" ->
                  RetryOp(t, rawTask, now) /\ UNCHANGED results
           [] call = "Fail" ->
                  FailOp(t, rawTask) /\ UNCHANGED results
           [] call = "Complete" ->
                  /\ CompleteOp(rawTask)
                  /\ SetResultOp(t.id, ResultJSON(UnixSeconds))

\* Dequeue called, or its BLMOVE aborted, with ctx cancelled: the error makes
\* the loop continue, and case <-ctx.Done() returns
WorkerExit(p) ==
    /\ pc[p] = "dequeue"
    /\ cancelled[p]
    /\ pc' = [pc EXCEPT ![p] = "exited"]
    /\ UNCHANGED <<brokerVars, storeVars, now, qi, task, raw, nilSeen, cancelled, serviceVars,
                   enqCount, historyVars>>

\* client.Allow(ctx, "ratelimit:"+task.Type, limit, burst) after a Dequeue;
\* an error fails open
WorkerAllow(p) ==
    /\ pc[p] = "holding"
    /\ IF cancelled[p]
       THEN /\ pc' = [pc EXCEPT ![p] = "handler"]
            /\ logged' = [logged EXCEPT ![p] = @ \cup {"Allow"}]
            /\ UNCHANGED ratelimit
       ELSE LET res == AllowScript(ratelimit[task[p].type], RateLimit, RateBurst,
                                   UnixSeconds, 1)
            IN  /\ ratelimit' = [ratelimit EXCEPT ![task[p].type] = res.rec]
                /\ pc' = [pc EXCEPT ![p] = IF res.allowed THEN "handler" ELSE "denied"]
                /\ UNCHANGED logged
    /\ UNCHANGED <<brokerVars, results, now, qi, task, raw, nilSeen, cancelled, serviceVars,
                   enqCount, handlerFails, opHistory, allowLog>>

\* a worker that sends a denied task to the dead-letter list once its
\* retries are used up
WorkerRequeueByPolicy(p) ==
    /\ pc[p] = "denied"
    /\ BrokerCall(p, WorkerPolicy(task[p], TRUE), task[p], raw[p])
    /\ Continue(p)
    /\ UNCHANGED <<ratelimit, now, task, raw, cancelled, serviceVars, enqCount, callerHistory>>

\* rate limit exceeded: client.Retry(ctx, *task, raw); continue
WorkerRequeue(p) ==
    /\ pc[p] = "denied"
    /\ BrokerCall(p, "Retry", task[p], raw[p])
    /\ Continue(p)
    /\ UNCHANGED <<ratelimit, now, task, raw, cancelled, serviceVars, enqCount, callerHistory>>

\* the handler returns (err # nil when failed) and the outcome is recorded
WorkerOutcome(p, failed) ==
    /\ pc[p] = "handler"
    /\ BrokerCall(p, WorkerPolicy(task[p], failed), task[p], raw[p])
    /\ handlerFails' = [handlerFails EXCEPT ![task[p].id] = IF failed THEN @ + 1 ELSE @]
    /\ Continue(p)
    /\ UNCHANGED <<ratelimit, now, task, raw, cancelled, serviceVars, enqCount, logged, allowLog>>

\* SIGINT / SIGTERM: cancel()
Cancel(p) ==
    /\ ~cancelled[p]
    /\ cancelled' = [cancelled EXCEPT ![p] = TRUE]
    /\ UNCHANGED <<brokerVars, storeVars, now, workerVars, enqCount, historyVars,
                   serviceVars>>

\* the bucket of a task type is untouched, or was drained by the traffic of
\* the current second
InitWorker ==
    /\ queue = [q \in QueueNames |-> <<>>]
    /\ processing_queue = <<>>
    /\ delayed_queue = {}
    /\ dead_letter_queue = <<>>
    /\ completed_queue = <<>>
    /\ ratelimit \in [TaskTypes -> {NoBucket, [tokens |-> 0, last_refill |-> 0]}]
    /\ results = [id \in TaskIds |-> NoResult]
    /\ now = 0
    /\ pc = [p \in Procs |-> "dequeue"]
    /\ qi = [p \in Procs |-> 1]
    /\ task = [p \in Procs |-> NoTask]
    /\ raw = [p \in Procs |-> NoRaw]
    /\ cancelled = [p \in Procs |-> FALSE]
    /\ enqCount = [id \in TaskIds |-> 0]
    /\ nilSeen = [p \in Procs |-> {}]
    /\ handlerFails = [id \in TaskIds |-> 0]
    /\ doneLog = <<>>
    /\ retries = [id \in TaskIds |-> 0]
    /\ logged = [p \in Procs |-> {}]
    /\ allowLog = <<>>
    /\ cronState = "idle"
    /\ cronEntries = <<>>
    /\ cronJobs = {}
    /\ apiKey = ""
    /\ setLog = <<>>
    /\ cronLog = <<>>
    /\ responses = <<>>

\* one worker process (cmd/worker) runs against the broker
Workers == {"p1"}
\* tasks submitted while the worker runs
WorkerTaskInputs == {t \in TaskInputs : t.priority = PriorityDefault}

NextWorker ==
    \/ \E t \in WorkerTaskInputs : Enqueue(t, MaxEnqueuesW)
    \/ \E p \in Workers : BLMoveHit(p)
    \/ \E p \in Workers : BLMoveNil(p)
    \/ \E p \in Workers : WorkerExit(p)
    \/ \E p \in Workers : WorkerAllow(p)
    \/ \E p \in Workers : WorkerRequeue(p)
    \/ \E p \in Workers : \E failed \in BOOLEAN : WorkerOutcome(p, failed)
    \/ \E p \in Workers : Cancel(p)
    \/ \E p \in Workers : SchedulerTick(p)
    \/ AdvanceTime(MaxTimeW)

SpecWorker == InitWorker /\ [][NextWorker]_vars

(***************************************************************************)
(* SpecLoops: the three loops of one worker process (startWorker,          *)
(* StartScheduler, collectQueueMetrics) sharing one context, which SIGINT  *)
(* or SIGTERM cancels.  pc holds the position of the worker loop under the *)
(* process ("dequeue" at its select, "blmove" inside Dequeue) and of the   *)
(* two ticker loops under their names: "select" at the select statement,   *)
(* "tick" in the body of case <-ticker.C, "late tick" in a body entered    *)
(* with the context already cancelled, "returned".                         *)
(***************************************************************************)
\* go client.StartScheduler(ctx), go collectQueueMetrics(ctx, client)
Loops == {"StartScheduler", "collectQueueMetrics"}

InitLoops ==
    /\ queue = [q \in QueueNames |-> <<>>]
    /\ processing_queue = <<>>
    /\ delayed_queue = {}
    /\ dead_letter_queue = <<>>
    /\ completed_queue = <<>>
    /\ ratelimit \in [TaskTypes -> {NoBucket, [tokens |-> 0, last_refill |-> 0]}]
    /\ results = [id \in TaskIds |-> NoResult]
    /\ now = 0
    /\ pc = [p \in Procs \cup Loops |-> IF p \in Loops THEN "select" ELSE "dequeue"]
    /\ qi = [p \in Procs |-> 1]
    /\ task = [p \in Procs |-> NoTask]
    /\ raw = [p \in Procs |-> NoRaw]
    /\ cancelled = [p \in Procs |-> FALSE]
    /\ enqCount = [id \in TaskIds |-> 0]
    /\ nilSeen = [p \in Procs |-> {}]
    /\ handlerFails = [id \in TaskIds |-> 0]
    /\ doneLog = <<>>
    /\ retries = [id \in TaskIds |-> 0]
    /\ logged = [p \in Procs |-> {}]
    /\ allowLog = <<>>
    /\ cronState = "idle"
    /\ cronEntries = <<>>
    /\ cronJobs = {}
    /\ apiKey = ""
    /\ setLog = <<>>
    /\ cronLog = <<>>
    /\ responses = <<>>

\* select: case <-ticker.C is ready and is the case chosen.  When ctx.Done()
\* is ready too the choice between the two is random
LoopSelectTick(p, g) ==
    /\ pc[g] = "select"
    /\ pc' = [pc EXCEPT ![g] = IF cancelled[p] THEN "late tick" ELSE "tick"]
    /\ UNCHANGED <<brokerVars, storeVars, now, qi, task, raw, nilSeen, cancelled, serviceVars,
                   enqCount, historyVars>>

\* select: case <-ctx.Done(): return
LoopReturn(p, g) ==
    /\ pc[g] = "select"
    /\ cancelled[p]
    /\ pc' = [pc EXCEPT ![g] = "returned"]
    /\ UNCHANGED <<brokerVars, storeVars, now, qi, task, raw, nilSeen, cancelled, serviceVars,
                   enqCount, historyVars>>

\* a scheduler that runs its script whether or not its context is cancelled
LoopBodyIgnoringCancel(p, g) ==
    /\ pc[g] \in {"tick", "late tick"}
    /\ pc' = [pc EXCEPT ![g] = "select"]
    /\ IF g = "StartScheduler"
       THEN \/ /\ \E t \in ClockReadings : PromoteScript(t)
               /\ UNCHANGED logged
            \/ /\ logged' = [logged EXCEPT ![p] = @ \cup {"Scheduler"}]
               /\ UNCHANGED brokerVars
       ELSE UNCHANGED <<brokerVars, logged>>
    /\ UNCHANGED <<storeVars, now, qi, task, raw, nilSeen, cancelled, serviceVars, enqCount,
                   handlerFails, opHistory, allowLog>>

\* the body of case <-ticker.C.  StartScheduler runs the promotion script,
\* which a call made on a cancelled context does not reach; an error (the
\* context is cancelled, the broker call failed) is logged and the loop
\* goes on.  collectQueueMetrics sets its gauges from GetQueueDepths, which
\* returns no entry for a call that failed
LoopBody(p, g) ==
    /\ pc[g] \in {"tick", "late tick"}
    /\ pc' = [pc EXCEPT ![g] = "select"]
    /\ IF g = "StartScheduler"
       THEN \/ /\ pc[g] = "tick"
               /\ \E t \in ClockReadings : PromoteScript(t)
               /\ UNCHANGED logged
            \/ /\ logged' = [logged EXCEPT ![p] = @ \cup {"Scheduler"}]
               /\ UNCHANGED brokerVars
       ELSE UNCHANGED <<brokerVars, logged>>
    /\ UNCHANGED <<storeVars, now, qi, task, raw, nilSeen, cancelled, serviceVars, enqCount,
                   handlerFails, opHistory, allowLog>>

\* the default case of the worker's select, taken only while ctx.Done() is
\* not ready: client.Dequeue(ctx) is called and issues its first BLMOVE
LoopDequeueCall(p) ==
    /\ pc[p] = "dequeue"
    /\ ~cancelled[p]
    /\ pc' = [pc EXCEPT ![p] = "blmove"]
    /\ UNCHANGED <<brokerVars, storeVars, now, qi, task, raw, nilSeen, cancelled, serviceVars,
                   enqCount, historyVars>>

\* the BLMOVE that Dequeue has issued on queues[qi] comes back: with an
\* entry, which Dequeue decodes and returns; with redis.Nil, after which
\* Dequeue issues the next BLMOVE or returns redis.Nil, and returns the
\* error of the next call when ctx was cancelled meanwhile; or with an
\* error because ctx was cancelled while it waited
LoopBLMove(p) ==
    /\ pc[p] = "blmove"
    /\ \/ /\ queue[queues[qi[p]]] # <<>>
          /\ LET q == queues[qi[p]]
                 result == Head(queue[q])
             IN  /\ queue' = [queue EXCEPT ![q] = Tail(@)]
                 /\ processing_queue' = Append(processing_queue, result)
                 /\ IF DecodeFails(result)
                    THEN /\ pc' = [pc EXCEPT ![p] = "dequeue"]
                         /\ UNCHANGED <<task, raw>>
                    ELSE /\ task' = [task EXCEPT ![p] = Decode(result)]
                         /\ raw' = [raw EXCEPT ![p] = result]
                         /\ pc' = [pc EXCEPT ![p] = "holding"]
          /\ qi' = [qi EXCEPT ![p] = 1]
          /\ nilSeen' = [nilSeen EXCEPT ![p] = {}]
          /\ UNCHANGED <<delayed_queue, dead_letter_queue, completed_queue>>
       \/ /\ queue[queues[qi[p]]] = <<>>
          /\ IF qi[p] < Len(queues) /\ ~cancelled[p]
             THEN /\ qi' = [qi EXCEPT ![p] = @ + 1]
                  /\ nilSeen' = [nilSeen EXCEPT ![p] = @ \cup {queues[qi[p]]}]
                  /\ UNCHANGED pc
             ELSE Continue(p)
          /\ UNCHANGED <<brokerVars, task, raw>>
       \/ /\ cancelled[p]
          /\ Continue(p)
          /\ UNCHANGED <<brokerVars, task, raw>>
    /\ UNCHANGED <<storeVars, now, cancelled, serviceVars, enqCount, historyVars>>

NextLoops ==
    \/ \E t \in WorkerTaskInputs : Enqueue(t, MaxEnqueuesK)
    \/ \E p \in Workers : LoopDequeueCall(p)
    \/ \E p \in Workers : LoopBLMove(p)
    \/ \E p \in Workers : WorkerExit(p)
    \/ \E p \in Workers : WorkerAllow(p)
    \/ \E p \in Workers : WorkerRequeue(p)
    \/ \E p \in Workers : \E failed \in BOOLEAN : WorkerOutcome(p, failed)
    \/ \E p \in Workers : Cancel(p)
    \/ \E p \in Workers : \E g \in Loops : LoopSelectTick(p, g)
    \/ \E p \in Workers : \E g \in Loops : LoopBody(p, g)
    \/ \E p \in Workers : \E g \in Loops : LoopReturn(p, g)
    \/ AdvanceTime(MaxTimeK)

SpecLoops == InitLoops /\ [][NextLoops]_vars

(***************************************************************************)
(* SpecFaults: the worker loop against a broker whose calls may return an  *)
(* error (connection refused, i/o timeout) without having run.             *)
(***************************************************************************)
\* Dequeue returns an error: continue
WorkerDequeueFault(p) ==
    /\ pc[p] = "dequeue"
    /\ qi[p] > 1
    /\ Continue(p)
    /\ UNCHANGED <<brokerVars, storeVars, now, task, raw, cancelled, serviceVars, enqCount, historyVars>>

\* a worker that treats an error of Allow as a denial
WorkerAllowFaultDenied(p) ==
    /\ pc[p] = "holding"
    /\ pc' = [pc EXCEPT ![p] = "denied"]
    /\ logged' = [logged EXCEPT ![p] = @ \cup {"Allow"}]
    /\ UNCHANGED <<brokerVars, storeVars, now, qi, task, raw, nilSeen, cancelled, serviceVars,
                   enqCount, handlerFails, opHistory, allowLog>>

\* Allow returns an error: it is logged and the task is processed
WorkerAllowFault(p) ==
    /\ pc[p] = "holding"
    /\ pc' = [pc EXCEPT ![p] = "handler"]
    /\ logged' = [logged EXCEPT ![p] = @ \cup {"Allow"}]
    /\ UNCHANGED <<brokerVars, storeVars, now, qi, task, raw, nilSeen, cancelled, serviceVars,
                   enqCount, handlerFails, opHistory, allowLog>>

\* the Retry of a denied task returns an error, which is dropped: continue
WorkerRequeueFault(p) ==
    /\ pc[p] = "denied"
    /\ Continue(p)
    /\ UNCHANGED <<brokerVars, storeVars, now, task, raw, cancelled, serviceVars, enqCount, historyVars>>

\* the handler returned and the Retry, Fail or Complete (and SetResult) that
\* follows returns an error, which is dropped
WorkerOutcomeFault(p, failed) ==
    /\ pc[p] = "handler"
    /\ WorkerPolicy(task[p], failed) \in {"Retry", "Fail", "Complete"}
    /\ handlerFails' = [handlerFails EXCEPT ![task[p].id] = IF failed THEN @ + 1 ELSE @]
    /\ Continue(p)
    /\ UNCHANGED <<brokerVars, storeVars, now, task, raw, cancelled, serviceVars, enqCount,
                   opHistory, logged, allowLog>>

NextFaults ==
    \/ \E t \in WorkerTaskInputs : Enqueue(t, MaxEnqueuesF)
    \/ \E p \in Workers : BLMoveHit(p)
    \/ \E p \in Workers : BLMoveNil(p)
    \/ \E p \in Workers : WorkerAllow(p)
    \/ \E p \in Workers : WorkerRequeue(p)
    \/ \E p \in Workers : \E failed \in BOOLEAN : WorkerOutcome(p, failed)
    \/ \E p \in Workers : WorkerDequeueFault(p)
    \/ \E p \in Workers : WorkerAllowFault(p)
    \/ \E p \in Workers : WorkerRequeueFault(p)
    \/ \E p \in Workers : \E failed \in BOOLEAN : WorkerOutcomeFault(p, failed)
    \/ \E p \in Workers : SchedulerTick(p)
    \/ AdvanceTime(MaxTimeF)

SpecFaults == InitWorker /\ [][NextFaults]_vars

(***************************************************************************)
(* SpecLoad: one worker process and one enqueued task followed step by     *)
(* step, while the other worker processes of the deployment draw on the    *)
(* same token buckets                                                      *)
(***************************************************************************)
\* client.Allow of another worker process, for a task of type ty it dequeued
OtherAllow(ty) ==
    /\ LET res == AllowScript(ratelimit[ty], RateLimit, RateBurst, UnixSeconds, 1)
       IN  ratelimit' = [ratelimit EXCEPT ![ty] = res.rec]
    /\ UNCHANGED <<brokerVars, results, now, workerVars, cancelled, serviceVars,
                   enqCount, historyVars>>

\* one task was enqueued; the bucket of its type is untouched, or was
\* drained by the traffic of the current second
InitLoad ==
    /\ \E t \in WorkerTaskInputs :
            /\ queue = [q \in QueueNames |-> IF q = QueueFor(t) THEN <<Encode(t)>> ELSE <<>>]
            /\ enqCount = [id \in TaskIds |-> IF id = t.id THEN 1 ELSE 0]
    /\ processing_queue = <<>>
    /\ delayed_queue = {}
    /\ dead_letter_queue = <<>>
    /\ completed_queue = <<>>
    /\ ratelimit \in [TaskTypes -> {NoBucket, [tokens |-> 0, last_refill |-> 0]}]
    /\ results = [id \in TaskIds |-> NoResult]
    /\ now = 0
    /\ pc = [p \in Procs |-> "dequeue"]
    /\ qi = [p \in Procs |-> 1]
    /\ task = [p \in Procs |-> NoTask]
    /\ raw = [p \in Procs |-> NoRaw]
    /\ cancelled = [p \in Procs |-> FALSE]
    /\ nilSeen = [p \in Procs |-> {}]
    /\ handlerFails = [id \in TaskIds |-> 0]
    /\ doneLog = <<>>
    /\ retries = [id \in TaskIds |-> 0]
    /\ logged = [p \in Procs |-> {}]
    /\ allowLog = <<>>
    /\ cronState = "idle"
    /\ cronEntries = <<>>
    /\ cronJobs = {}
    /\ apiKey = ""
    /\ setLog = <<>>
    /\ cronLog = <<>>
    /\ responses = <<>>

NextLoad ==
    \/ \E p \in Workers : BLMoveHit(p)
    \/ \E p \in Workers : BLMoveNil(p)
    \/ \E p \in Workers : WorkerAllow(p)
    \/ \E p \in Workers : WorkerRequeue(p)
    \/ \E p \in Workers : \E failed \in BOOLEAN : WorkerOutcome(p, failed)
    \/ \E ty \in TaskTypes : OtherAllow(ty)
    \/ \E p \in Workers : SchedulerTick(p)
    \/ AdvanceTime(MaxTimeL)

SpecLoad == InitLoad /\ [][NextLoad]_vars

(***************************************************************************)
(* SpecBackoff: a client holds a dequeued task whose RetryCount is any     *)
(* value up to the bound and calls Retry, as TestRetry does; the score is  *)
(* kept in nanoseconds at the width of the code's arithmetic.              *)
(***************************************************************************)
\* processAt := time.Now().Add(backoff); Score: float64(processAt.UnixNano())
RetryOpNanos(t, rawTask, at) ==
    LET retried == [t EXCEPT !.retry_count = @ + 1]
        processAt == [at |-> at, backoff |-> BackoffNanos(retried.retry_count)]
    IN  /\ delayed_queue' = ZAdd(delayed_queue, Encode(retried), processAt)
        /\ processing_queue' = LRemFirst(processing_queue, rawTask)
        /\ retries' = [retries EXCEPT ![t.id] = @ + 1]
        /\ UNCHANGED <<queue, dead_letter_queue, completed_queue, doneLog>>

RetryNanos(p) ==
    /\ pc[p] = "holding"
    /\ RetryOpNanos(task[p], raw[p], now)
    /\ Release(p)
    /\ UNCHANGED <<storeVars, now, cancelled, serviceVars, enqCount, callerHistory>>

InitBackoff ==
    \E rc \in 0..MaxRetryCountB :
        LET t == Task(1, "email", 0, rc, PriorityDefault)
        IN  /\ queue = [q \in QueueNames |-> <<>>]
            /\ processing_queue = <<Encode(t)>>
            /\ delayed_queue = {}
            /\ dead_letter_queue = <<>>
            /\ completed_queue = <<>>
            /\ ratelimit = [ty \in TaskTypes |-> NoBucket]
            /\ results = [id \in TaskIds |-> NoResult]
            /\ now = 0
            /\ pc = [p \in Procs |-> IF p = "p1" THEN "holding" ELSE "dequeue"]
            /\ qi = [p \in Procs |-> 1]
            /\ task = [p \in Procs |-> IF p = "p1" THEN t ELSE NoTask]
            /\ raw = [p \in Procs |-> IF p = "p1" THEN Encode(t) ELSE NoRaw]
            /\ cancelled = [p \in Procs |-> FALSE]
            /\ enqCount = [id \in TaskIds |-> IF id = 1 THEN 1 ELSE 0]
            /\ nilSeen = [p \in Procs |-> {}]
            /\ handlerFails = [id \in TaskIds |-> 0]
            /\ doneLog = <<>>
            /\ retries = [id \in TaskIds |-> 0]
            /\ logged = [p \in Procs |-> {}]
            /\ allowLog = <<>>
            /\ cronState = "idle"
            /\ cronEntries = <<>>
            /\ cronJobs = {}
            /\ apiKey = ""
            /\ setLog = <<>>
            /\ cronLog = <<>>
            /\ responses = <<>>

NextBackoff ==
    \/ \E p \in Procs : RetryNanos(p)
    \/ AdvanceTime(MaxTimeB)

SpecBackoff == InitBackoff /\ [][NextBackoff]_vars

(***************************************************************************)
(* SpecRateLimit: one client calling Allow on a fresh key, always with the *)
(* same rate and burst, at times of its choosing (TestRateLimit)           *)
(***************************************************************************)
\* the key the client uses
RateLimitKey == CHOOSE ty \in TaskTypes : TRUE

\* client.Allow(ctx, key, rate, burst): the script run with the whole
\* seconds of the caller's clock
AllowCall(rate, burst, maxCalls) ==
    /\ Len(allowLog) < maxCalls
    /\ allowLog # <<>> => rate = allowLog[1].rate /\ burst = allowLog[1].burst
    /\ LET res == AllowScript(ratelimit[RateLimitKey], rate, burst, UnixSeconds, 1)
       IN  /\ ratelimit' = [ratelimit EXCEPT ![RateLimitKey] = res.rec]
           /\ allowLog' = Append(allowLog, [at |-> now, rate |-> rate, burst |-> burst,
                                            allowed |-> res.allowed])
    /\ UNCHANGED <<brokerVars, results, now, workerVars, cancelled, serviceVars, enqCount,
                   handlerFails, opHistory, logged>>

NextRateLimit ==
    \/ \E rate \in 1..MaxRate : \E burst \in 1..MaxBurst :
          AllowCall(rate, burst, MaxAllowCalls)
    \/ AdvanceTime(MaxTimeR)

SpecRateLimit == Init /\ [][NextRateLimit]_vars

(***************************************************************************)
(* SpecResults: clients setting and reading results over more than a day,  *)
(* next to the queue operations (TestTaskResult)                           *)
(***************************************************************************)
\* the values a client stores: map[string]string{"status": ...}
ResultValues == {[status |-> "success"], [status |-> "failed"]}

\* client.SetResult(ctx, id, v)
SetResult(id, v, maxCalls) ==
    /\ Len(setLog) < maxCalls
    /\ SetResultOp(id, MarshalResult(v))
    /\ setLog' = Append(setLog, [id |-> id, v |-> v, at |-> now])
    /\ UNCHANGED <<brokerVars, ratelimit, now, workerVars, cancelled, enqCount,
                   historyVars, cronVars, apiKey, cronLog, responses>>

\* the clock moves on by 100 ms or by twelve hours
SleepSteps == {1, ResultTTL \div 2}
Sleep(d, maxShort, maxT) ==
    /\ now + d <= maxT
    /\ d = 1 => now % (ResultTTL \div 2) < maxShort
    /\ now' = now + d
    /\ UNCHANGED <<brokerVars, storeVars, workerVars, cancelled, serviceVars, enqCount,
                   historyVars>>

NextResults ==
    \/ \E id \in TaskIds : \E v \in ResultValues : SetResult(id, v, MaxSets)
    \/ \E d \in SleepSteps : Sleep(d, MaxShortSleeps, MaxTimeS)
    \/ \E t \in WorkerTaskInputs : Enqueue(t, MaxEnqueuesS)
    \/ \E p \in Workers : BLMoveHit(p)
    \/ \E p \in Workers : BLMoveNil(p)
    \/ \E p \in Workers : Complete(p)
    \/ \E p \in Workers : Fail(p)

SpecResults == Init /\ [][NextResults]_vars

(***************************************************************************)
(* Client.Schedule / StartCronScheduler / StopCronScheduler over the cron  *)
(* registrar.  The registrar's loop starts one goroutine per firing of an  *)
(* entry; the closure passed to AddFunc runs in that goroutine and writes  *)
(* and reads the task variable it captured, shared by all firings of the   *)
(* entry.  Stop ends the loop and returns without waiting for goroutines   *)
(* already started (the context it returns is dropped).                    *)
(***************************************************************************)
\* "@every 1s"
CronPeriod == UnitsPerSecond
\* what a read or write of task.CreatedAt racing with a write can produce
TornTime == -1

\* the EntryIDs the registrar hands out
CronEntryIds == {1}
\* the template tasks passed to Schedule (CreatedAt left at its zero value)
CronTemplates == {Task(id, ty, 0, 0, p) : id \in {1}, ty \in TaskTypes, p \in Priorities}

\* c.cron.AddFunc(spec, func() {...}): the entry and the variable its closure captured
ScheduleOp(template) ==
    cronEntries' = Append(cronEntries,
                          [template |-> template, task |-> template,
                           next |-> now + CronPeriod])

Schedule ==
    /\ Len(cronEntries) + 1 \in CronEntryIds
    /\ \E template \in CronTemplates : ScheduleOp(template)
    /\ UNCHANGED <<brokerVars, storeVars, now, workerVars, cancelled, enqCount, historyVars,
                   cronState, cronJobs, apiKey, setLog, cronLog, responses>>

\* c.cron.Start(): the loop computes every entry's next firing from now
StartCronScheduler ==
    /\ cronState = "idle"
    /\ cronState' = "running"
    /\ cronEntries' = [e \in DOMAIN cronEntries |->
                          [cronEntries[e] EXCEPT !.next = now + CronPeriod]]
    /\ UNCHANGED <<brokerVars, storeVars, now, workerVars, cancelled, enqCount, historyVars,
                   cronJobs, apiKey, setLog, cronLog, responses>>

\* c.cron.Stop()
StopCronScheduler ==
    /\ cronState = "running"
    /\ cronState' = "stopped"
    /\ UNCHANGED <<brokerVars, storeVars, now, workerVars, cancelled, enqCount, historyVars,
                   cronEntries, cronJobs, apiKey, setLog, cronLog, responses>>

\* the loop's timer: entry e is due, its job goroutine is started
CronFire(e, maxJobs) ==
    /\ cronState = "running"
    /\ cronEntries[e].next <= now
    /\ Len(cronLog) + Cardinality(cronJobs) < maxJobs
    /\ cronJobs' = cronJobs \cup {[entry |-> e, fired |-> now, pc |-> "stamp", stamped |-> 0]}
    /\ cronEntries' = [cronEntries EXCEPT ![e].next = now + CronPeriod]
    /\ UNCHANGED <<brokerVars, storeVars, now, workerVars, cancelled, enqCount, historyVars,
                   cronState, apiKey, setLog, cronLog, responses>>

\* another goroutine of the same entry is about to write the captured variable
RacingWrite(j) == \E o \in cronJobs : o # j /\ o.entry = j.entry /\ o.pc = "stamp"

\* task.CreatedAt = time.Now()
CronJobStamp(j) ==
    /\ j.pc = "stamp"
    /\ \E written \in {now} \cup (IF RacingWrite(j) THEN {TornTime} ELSE {}) :
          cronEntries' = [cronEntries EXCEPT ![j.entry].task.created_at = written]
    /\ cronJobs' = (cronJobs \ {j}) \cup {[j EXCEPT !.pc = "enqueue", !.stamped = now]}
    /\ UNCHANGED <<brokerVars, storeVars, now, workerVars, cancelled, enqCount, historyVars,
                   cronState, apiKey, setLog, cronLog, responses>>

\* c.Enqueue(bgCtx, task): the captured variable is copied and pushed
CronJobEnqueue(j) ==
    /\ j.pc = "enqueue"
    /\ \E read \in {cronEntries[j.entry].task.created_at}
                      \cup (IF RacingWrite(j) THEN {now, TornTime} ELSE {}) :
          LET t == [cronEntries[j.entry].task EXCEPT !.created_at = read]
          IN  /\ queue' = [queue EXCEPT ![QueueFor(t)] = Append(@, Encode(t))]
              /\ enqCount' = [enqCount EXCEPT ![t.id] = @ + 1]
              /\ cronLog' = Append(cronLog, [job |-> j, at |-> now, state |-> cronState,
                                             pushed |-> Encode(t)])
    /\ cronJobs' = cronJobs \ {j}
    /\ UNCHANGED <<processing_queue, delayed_queue, dead_letter_queue, completed_queue,
                   storeVars, now, workerVars, cancelled, historyVars,
                   cronState, cronEntries, apiKey, setLog, responses>>

(***************************************************************************)
(* SpecCron: Schedule, Start, firings and Stop (TestSchedule)              *)
(***************************************************************************)
\* the loop's timer is served before the clock shows the next 100 ms
CronTick(maxJobs, maxT) ==
    /\ ~\E e \in DOMAIN cronEntries : ENABLED CronFire(e, maxJobs)
    /\ AdvanceTime(maxT)

NextCron ==
    \/ Schedule
    \/ StartCronScheduler
    \/ StopCronScheduler
    \/ \E e \in DOMAIN cronEntries : CronFire(e, MaxCronJobs)
    \/ \E j \in cronJobs : CronJobStamp(j)
    \/ \E j \in cronJobs : CronJobEnqueue(j)
    \/ CronTick(MaxCronJobs, MaxTimeC)

SpecCron == Init /\ [][NextCron]_vars

(***************************************************************************)
(* The HTTP server: setupRouter registers every endpoint as                *)
(* enableCORS(authMiddleware(handler, apiKey)).  A request is its method,  *)
(* path, X-API-Key header ("none" when absent) and input: the body of a    *)
(* POST endpoint or the query parameter of a GET endpoint, "empty" when    *)
(* missing.  A response is the status code written.                        *)
(***************************************************************************)
Requests ==
    [method : {"OPTIONS", "POST", "GET"},
     path : {"/enqueue", "/schedule", "/result", "/stats", "/tasks"},
     header : {"none", "wrong-key", "secret-key"},
     input : {"empty", "valid"}]

\* r.Header.Get("X-API-Key")
HeaderGet(req) == IF req.header = "none" THEN "" ELSE req.header

\* w.WriteHeader / http.Error; reached: the request got as far as the endpoint's handler
Respond(req, status, reached) ==
    responses' = Append(responses, [req |-> req, status |-> status, reached |-> reached])

\* a response that enqueues and schedules nothing
NoEffect == UNCHANGED <<queue, enqCount, cronEntries>>

\* the handler of /enqueue: a body without "priority" decodes to priority 0
enqueueHandler(req) ==
    IF req.method # "POST" THEN Respond(req, 405, TRUE) /\ NoEffect
    ELSE IF req.input = "empty" THEN Respond(req, 400, TRUE) /\ NoEffect
    ELSE /\ \E id \in {i \in TaskIds : enqCount[i] = 0} : \E ty \in TaskTypes :
               LET t == Task(id, ty, now, 0, PriorityLow)
               IN  /\ queue' = [queue EXCEPT ![QueueFor(t)] = Append(@, Encode(t))]
                   /\ enqCount' = [enqCount EXCEPT ![id] = @ + 1]
         /\ Respond(req, 200, TRUE)
         /\ UNCHANGED cronEntries

\* the handler of /result
resultHandler(req) ==
    /\ IF req.input = "empty" THEN Respond(req, 400, TRUE)
       ELSE \E id \in TaskIds :
               Respond(req, IF GetResult(id).found THEN 200 ELSE 404, TRUE)
    /\ NoEffect

\* the handler of /schedule
scheduleHandler(req) ==
    IF req.method # "POST" THEN Respond(req, 405, TRUE) /\ NoEffect
    ELSE IF req.input = "empty" THEN Respond(req, 400, TRUE) /\ NoEffect
    ELSE /\ Len(cronEntries) + 1 \in CronEntryIds
         /\ \E id \in TaskIds : \E ty \in TaskTypes :
               ScheduleOp(Task(id, ty, now, 0, PriorityLow))
         /\ Respond(req, 200, TRUE)
         /\ UNCHANGED <<queue, enqCount>>

\* the handler of /stats
statsHandler(req) ==
    /\ Respond(req, IF req.method # "GET" THEN 405 ELSE 200, TRUE)
    /\ NoEffect

\* the handler of /tasks
tasksHandler(req) ==
    /\ Respond(req, IF req.method # "GET" THEN 405
                    ELSE IF req.input = "empty" THEN 400 ELSE 200, TRUE)
    /\ NoEffect

\* the handler setupRouter registered for the request's path
Handler(req) ==
    CASE req.path = "/enqueue" -> enqueueHandler(req)
      [] req.path = "/result" -> resultHandler(req)
      [] req.path = "/schedule" -> scheduleHandler(req)
      [] req.path = "/stats" -> statsHandler(req)
      [] req.path = "/tasks" -> tasksHandler(req)

\* a middleware that only checks a key the request carries
authMiddlewareIfPresent(req) ==
    IF apiKey = "" THEN Handler(req)
    ELSE IF req.header # "none" /\ HeaderGet(req) # apiKey
         THEN Respond(req, 401, FALSE) /\ NoEffect
         ELSE Handler(req)

authMiddleware(req) ==
    IF apiKey = "" THEN Handler(req)
    ELSE IF HeaderGet(req) # apiKey THEN Respond(req, 401, FALSE) /\ NoEffect
    ELSE Handler(req)

\* a wrapper that only sets the headers and passes every method on
enableCORSNoPreflight(req) ==
    authMiddleware(req)

enableCORS(req) ==
    IF req.method = "OPTIONS" THEN Respond(req, 200, FALSE) /\ NoEffect
    ELSE authMiddleware(req)

\* mux.ServeHTTP(w, req)
ServeHTTP(req, maxRequests) ==
    /\ Len(responses) < maxRequests
    /\ enableCORS(req)
    /\ UNCHANGED <<processing_queue, delayed_queue, dead_letter_queue, completed_queue,
                   storeVars, now, workerVars, cancelled, historyVars,
                   cronState, cronJobs, apiKey, setLog, cronLog>>

(***************************************************************************)
(* SpecServer: a server configured with or without a key, serving          *)
(* requests (TestAuthMiddleware, TestAuthDisabled)                         *)
(***************************************************************************)
InitServer ==
    /\ queue = [q \in QueueNames |-> <<>>]
    /\ processing_queue = <<>>
    /\ delayed_queue = {}
    /\ dead_letter_queue = <<>>
    /\ completed_queue = <<>>
    /\ ratelimit = [ty \in TaskTypes |-> NoBucket]
    /\ results = [id \in TaskIds |-> NoResult]
    /\ now = 0
    /\ pc = [p \in Procs |-> "dequeue"]
    /\ qi = [p \in Procs |-> 1]
    /\ task = [p \in Procs |-> NoTask]
    /\ raw = [p \in Procs |-> NoRaw]
    /\ cancelled = [p \in Procs |-> FALSE]
    /\ enqCount = [id \in TaskIds |-> 0]
    /\ nilSeen = [p \in Procs |-> {}]
    /\ handlerFails = [id \in TaskIds |-> 0]
    /\ doneLog = <<>>
    /\ retries = [id \in TaskIds |-> 0]
    /\ logged = [p \in Procs |-> {}]
    /\ allowLog = <<>>
    /\ cronState = "idle"
    /\ cronEntries = <<>>
    /\ cronJobs = {}
    \* os.Getenv("API_KEY")
    /\ apiKey \in {"", "secret-key"}
    /\ setLog = <<>>
    /\ cronLog = <<>>
    /\ responses = <<>>

NextServer ==
    \/ \E req \in Requests : ServeHTTP(req, MaxRequests)

SpecServer == InitServer /\ [][NextServer]_vars

(***************************************************************************)
(* SpecCrash: the engine clients of Spec, any of which may die while it    *)
(* holds a task                                                            *)
(***************************************************************************)
\* the process is killed between Dequeue's return and Complete/Retry/Fail
Crash(p) ==
    /\ pc[p] = "holding"
    /\ pc' = [pc EXCEPT ![p] = "crashed"]
    /\ UNCHANGED <<brokerVars, storeVars, now, qi, task, raw, nilSeen, cancelled,
                   serviceVars, enqCount, historyVars>>

NextCrash ==
    \/ \E t \in TaskInputs : Enqueue(t, MaxEnqueuesX)
    \/ \E p \in Procs : BLMoveHit(p)
    \/ \E p \in Procs : BLMoveNil(p)
    \/ \E p \in Procs : Complete(p)
    \/ \E p \in Procs : Retry(p, MaxRetryCountX)
    \/ \E p \in Procs : Fail(p)
    \/ \E p \in Procs : SchedulerTick(p)
    \/ \E p \in Procs : Crash(p)
    \/ AdvanceTime(MaxTimeX)

SpecCrash == Init /\ [][NextCrash]_vars

(***************************************************************************)
(* SpecRouting: producers calling Enqueue with any integer in the          *)
(* priority field (TestEnqueue)                                            *)
(***************************************************************************)
\* Priority is an int: values below, inside and above the three named ones
RoutingInputs ==
    {Task(id, ty, 0, 0, p) : id \in TaskIds, ty \in TaskTypes, p \in -1..MaxPriority}

NextRouting ==
    \/ \E t \in RoutingInputs : Enqueue(t, MaxEnqueuesE)

SpecRouting == Init /\ [][NextRouting]_vars

(***************************************************************************)
(* SpecPayload: library producers whose payloads are a string, integers    *)
(* held in an int64 and a number written by a json.RawMessage, and one     *)
(* consumer that retries or completes what it dequeues                     *)
(***************************************************************************)
\* a string; 2^53, the first integer whose successor is not a float64, and
\* that successor; the number 1e999, valid JSON but outside float64
PayloadValues ==
    LET TwoTo53 == [k \in 1..8 |-> IF k = 7 THEN 32 ELSE 0]
    IN  {<<"string", "p">>, <<"int64", TwoTo53>>,
         <<"int64", AddPow2(TwoTo53, 0)>>, <<"raw", 999>>}

PayloadInputs ==
    {TaskWith(id, ty, v, 0, 0, PriorityDefault) :
        id \in TaskIds, ty \in TaskTypes, v \in PayloadValues}

NextPayload ==
    \/ \E t \in PayloadInputs : Enqueue(t, MaxEnqueuesJ)
    \/ \E p \in Workers : BLMoveHit(p)
    \/ \E p \in Workers : BLMoveNil(p)
    \/ \E p \in Workers : Complete(p)
    \/ \E p \in Workers : Retry(p, MaxRetryCountJ)
    \/ \E p \in Workers : SchedulerTick(p)
    \/ AdvanceTime(MaxTimeJ)

SpecPayload == Init /\ [][NextPayload]_vars

(***************************************************************************)
(* SpecAck: producers and consumers that acknowledge what they dequeue     *)
(* (TestIntegrationFlow: Enqueue, Dequeue, Ack)                            *)
(***************************************************************************)
NextAck ==
    \/ \E t \in TaskInputs : Enqueue(t, MaxEnqueuesA)
    \/ \E p \in Procs : BLMoveHit(p)
    \/ \E p \in Procs : BLMoveNil(p)
    \/ \E p \in Procs : Ack(p)

SpecAck == Init /\ [][NextAck]_vars

(***************************************************************************)
(* SpecReuse: library clients that keep the string Dequeue returned after  *)
(* acknowledging it, and pass it to Complete, Retry or Fail afterwards     *)
(***************************************************************************)
\* client.Ack(ctx, raw), the caller going on with task and raw
AckKept(p) ==
    /\ pc[p] = "holding"
    /\ AckOp(raw[p])
    /\ UNCHANGED <<storeVars, now, workerVars, cancelled, serviceVars, enqCount,
                   callerHistory>>

NextReuse ==
    \/ \E t \in TaskInputs : Enqueue(t, MaxEnqueuesU)
    \/ \E p \in Procs : BLMoveHit(p)
    \/ \E p \in Procs : BLMoveNil(p)
    \/ \E p \in Procs : AckKept(p)
    \/ \E p \in Procs : Complete(p)
    \/ \E p \in Procs : Retry(p, MaxRetryCountU)
    \/ \E p \in Procs : Fail(p)

SpecReuse == Init /\ [][NextReuse]_vars

(***************************************************************************)
(* SpecInspect: the producers and the consumer of SpecPayload, and a       *)
(* monitor that calls InspectQueue and GetQueueDepths                      *)
(***************************************************************************)
\* client.InspectQueue(ctx, queueName, limit), when the broker answers:
\* ZRANGE or LRANGE queueName 0 limit-1, where a negative stop counts from
\* the tail, and the entries that decode
InspectQueue(queueName, limit) ==
    LET source ==
            CASE queueName = "delayed_queue" -> ZSorted(delayed_queue)
              [] queueName \in QueueNames -> queue[queueName]
              [] queueName = "processing_queue" -> processing_queue
              [] queueName = "dead_letter_queue" -> dead_letter_queue
              [] queueName = "completed_queue" -> completed_queue
              [] OTHER -> <<>>
        stop == IF limit - 1 < 0 THEN Len(source) + limit - 1
                ELSE Min(limit - 1, Len(source) - 1)
        rawTasks == IF 0 > stop THEN <<>> ELSE SubSeq(source, 1, stop + 1)
        decoded == SelectSeq(rawTasks, LAMBDA r : ~DecodeFails(r))
    IN  [i \in 1..Len(decoded) |-> Decode(decoded[i])]

\* client.GetQueueDepths(ctx), when the broker answers: LLEN of five lists
\* and ZCARD of the delay set
GetQueueDepths ==
    LET queuesRead == <<"queue:high", "queue:default", "queue:low", "processing_queue",
                        "dead_letter_queue">>
        LLen(q) == CASE q \in QueueNames -> Len(queue[q])
                     [] q = "processing_queue" -> Len(processing_queue)
                     [] q = "dead_letter_queue" -> Len(dead_letter_queue)
    IN  [q \in {queuesRead[i] : i \in 1..Len(queuesRead)} \cup {"delayed_queue"} |->
            IF q = "delayed_queue" THEN Cardinality(delayed_queue) ELSE LLen(q)]

\* a monitor calls InspectQueue, with the name of one of the seven structures
\* or of a key that does not exist, and keeps what it returned; 50 is the
\* limit of the /tasks handler
Inspect(queueName, limit, maxCalls) ==
    /\ Len(responses) < maxCalls
    /\ responses' = Append(responses, [call |-> "InspectQueue", queue |-> queueName,
                                       limit |-> limit,
                                       tasks |-> InspectQueue(queueName, limit),
                                       depths |-> <<>>])
    /\ UNCHANGED <<brokerVars, storeVars, now, workerVars, cancelled, enqCount, historyVars,
                   cronVars, apiKey, setLog, cronLog>>

\* a monitor calls GetQueueDepths and keeps what it returned
QueueDepths(maxCalls) ==
    /\ Len(responses) < maxCalls
    /\ responses' = Append(responses, [call |-> "GetQueueDepths", queue |-> "",
                                       limit |-> 0, tasks |-> <<>>,
                                       depths |-> GetQueueDepths])
    /\ UNCHANGED <<brokerVars, storeVars, now, workerVars, cancelled, enqCount, historyVars,
                   cronVars, apiKey, setLog, cronLog>>

NextInspect ==
    \/ \E t \in {i \in PayloadInputs : i.payload[1] # "int64"} : Enqueue(t, MaxEnqueuesI)
    \/ \E p \in Workers : BLMoveHit(p)
    \/ \E p \in Workers : BLMoveNil(p)
    \/ \E p \in Workers : Complete(p)
    \/ \E p \in Workers : Retry(p, MaxRetryCountI)
    \/ \E p \in Workers : Fail(p)
    \/ \E p \in Workers : SchedulerTick(p)
    \/ AdvanceTime(MaxTimeI)
    \/ \E queueName \in QueueNames \cup {"processing_queue", "delayed_queue",
                                         "dead_letter_queue", "completed_queue",
                                         "queue:none"} :
            \E limit \in {-1, 0, 1, 50} : Inspect(queueName, limit, MaxInspects)
    \/ QueueDepths(MaxInspects)

SpecInspect == Init /\ [][NextInspect]_vars

(***************************************************************************)
(* SpecLive: the worker loop and its scheduler, neither crashing nor       *)
(* cancelled, against a broker that answers every call.  Producers make    *)
(* finitely many Enqueue calls, with payloads that are strings or the      *)
(* number 1e999; every handler returns; the clock goes on while a task     *)
(* waits in the delay set.  Each step of the loops that can be taken is    *)
(* eventually taken.                                                       *)
(***************************************************************************)
NextLive ==
    \/ \E t \in {i \in PayloadInputs : i.payload[1] # "int64"} : Enqueue(t, MaxEnqueuesV)
    \/ \E p \in Workers : BLMoveHit(p)
    \/ \E p \in Workers : BLMoveNil(p)
    \/ \E p \in Workers : WorkerAllow(p)
    \/ \E p \in Workers : WorkerRequeue(p)
    \/ \E p \in Workers : \E failed \in BOOLEAN : WorkerOutcome(p, failed)
    \/ \E p \in Workers : SchedulerTick(p)
    \/ AdvanceTime(IF \E e \in delayed_queue : e.score > now THEN now + 1 ELSE MaxTimeV)

SpecLive ==
    /\ InitWorker
    /\ [][NextLive]_vars
    /\ \A p \in Workers :
          /\ WF_vars(BLMoveHit(p))
          /\ WF_vars(BLMoveNil(p))
          /\ WF_vars(WorkerAllow(p))
          /\ WF_vars(WorkerRequeue(p))
          /\ WF_vars(\E failed \in BOOLEAN : WorkerOutcome(p, failed))
          /\ WF_vars(SchedulerTick(p))
    /\ WF_vars(AdvanceTime(IF \E e \in delayed_queue : e.score > now THEN now + 1
                           ELSE MaxTimeV))

(***************************************************************************)
(* Observations used by the properties                                     *)
(***************************************************************************)
CountId(list, id) == Cardinality({i \in 1..Len(list) : Decode(list[i]).id = id})
CountRaw(list, r) == Cardinality({i \in 1..Len(list) : list[i] = r})
ReadyCount(id) ==
    CountId(queue[QueueHigh], id) + CountId(queue[QueueDefault], id) + CountId(queue[QueueLow], id)
DelayCount(id) == Cardinality({e \in delayed_queue : Decode(e.member).id = id})
Members(z) == {e.member : e \in z}

\* a Dequeue of p returns a task in this step
Delivered(p) == pc[p] = "dequeue" /\ pc'[p] = "holding"
\* ... and it was moved out of ready queue q
MovedFrom(p, q) == Delivered(p) /\ Len(queue'[q]) < Len(queue[q])
\* this step is not an Enqueue call
NoEnqueueStep == enqCount' = enqCount

(***************************************************************************)
(* C1 - location exclusivity (I1): a task whose id was enqueued once is in *)
(* at most one of the ready queues, the in-flight list, the delay set and  *)
(* the dead-letter list, and occurs there once.                            *)
(***************************************************************************)
C1_LocationExclusive ==
    \A id \in TaskIds :
        enqCount[id] = 1 =>
            ReadyCount(id) + CountId(processing_queue, id) + DelayCount(id)
                + CountId(dead_letter_queue, id) <= 1

\* a task that went Ready -> InFlight -> Delayed -> Ready, another one dead
C1_Witness ==
    \E a, b \in TaskIds :
        /\ a # b /\ enqCount[a] = 1 /\ enqCount[b] = 1
        /\ \E i \in 1..Len(queue[QueueDefault]) :
              /\ Decode(queue[QueueDefault][i]).id = a
              /\ Decode(queue[QueueDefault][i]).retry_count = 1
        /\ CountId(dead_letter_queue, b) = 1

(***************************************************************************)
(* C2 - strict priority under concurrency, as claimed: when a Dequeue      *)
(* moves a task out of queue:default, queue:high is empty at that moment;  *)
(* when out of queue:low, queue:high and queue:default are empty.          *)
(***************************************************************************)
C2_StrictAtMove ==
    [][\A p \in Procs :
          /\ MovedFrom(p, QueueDefault) => queue[QueueHigh] = <<>>
          /\ MovedFrom(p, QueueLow) =>
                queue[QueueHigh] = <<>> /\ queue[QueueDefault] = <<>>]_vars

(***************************************************************************)
(* C2 amended - when a Dequeue moves a task out of queue:default, the same *)
(* call's BLMOVE on queue:high has timed out on an empty queue:high        *)
(* before; when out of queue:low, the same holds of queue:high and         *)
(* queue:default.                                                          *)
(***************************************************************************)
C2_HigherSeenEmpty ==
    [][\A p \in Procs :
          /\ MovedFrom(p, QueueDefault) => QueueHigh \in nilSeen[p]
          /\ MovedFrom(p, QueueLow) => {QueueHigh, QueueDefault} \subseteq nilSeen[p]]_vars

\* a call that is past queue:high, about to take from queue:default while
\* queue:high has been filled since
C2_Witness ==
    \E p \in Procs :
        /\ pc[p] = "dequeue" /\ queues[qi[p]] = QueueDefault
        /\ QueueHigh \in nilSeen[p]
        /\ queue[QueueDefault] # <<>> /\ queue[QueueHigh] # <<>>

C3_HighestNonEmpty ==
    IF queue[QueueHigh] # <<>> THEN QueueHigh
    ELSE IF queue[QueueDefault] # <<>> THEN QueueDefault
    ELSE QueueLow

(***************************************************************************)
(* C3 - priority dequeue on a quiescent broker: with calls made one at a   *)
(* time, the task a Dequeue returns is the head of queue:high if that is   *)
(* non-empty, else the head of queue:default if that is non-empty, else    *)
(* the head of queue:low, and it is moved to the tail of the in-flight     *)
(* list.                                                                   *)
(***************************************************************************)
C3_QuiescentPriority ==
    [][\A p \in Procs :
          Delivered(p) =>
              /\ queue[C3_HighestNonEmpty] # <<>>
              /\ raw'[p] = Head(queue[C3_HighestNonEmpty])
              /\ task'[p] = Decode(raw'[p])
              /\ queue' = [queue EXCEPT ![C3_HighestNonEmpty] = Tail(@)]
              /\ processing_queue' = Append(processing_queue, raw'[p])]_vars

\* three tasks, one per priority: high and default were returned and
\* completed in this order, low is the one returned last
C3_Witness ==
    /\ EnqCalls = 3
    /\ Len(completed_queue) = 2
    /\ Decode(completed_queue[1]).priority = PriorityHigh
    /\ Decode(completed_queue[2]).priority = PriorityDefault
    /\ \E p \in Procs : pc[p] = "holding" /\ task[p].priority = PriorityLow
    /\ \A q \in QueueNames : queue[q] = <<>>

C4_Occurrences(id) ==
    ReadyCount(id) + CountId(processing_queue, id) + CountId(completed_queue, id)

(***************************************************************************)
(* C4 - P1 as claimed: with Enqueue, Dequeue and Complete only, a task     *)
(* whose id was enqueued once occurs exactly once across the ready queues, *)
(* the in-flight list and the completed list.                              *)
(***************************************************************************)
C4_ExactlyOnce ==
    \A id \in DOMAIN enqCount : enqCount[id] = 1 => C4_Occurrences(id) = 1

\* the completions that LTRIM has pushed out of the completed list
C4_Trimmed == SubSeq(doneLog, 1, Len(doneLog) - CompletedKeep)

C4_EnqueuedOnce(r) == enqCount[Decode(r).id] = 1

\* the tokens of once-enqueued tasks in ready, in-flight and completed, in
\* this order, and those trimmed away
C4_Located ==
    SelectSeq(queue[QueueHigh] \o queue[QueueDefault] \o queue[QueueLow]
                  \o processing_queue \o completed_queue, C4_EnqueuedOnce)
C4_Gone == SelectSeq(C4_Trimmed, C4_EnqueuedOnce)

(***************************************************************************)
(* C4 amended - with Enqueue, Dequeue and Complete only, a task whose id   *)
(* was enqueued once never occurs twice across the ready queues, the       *)
(* in-flight list and the completed list, and occurs exactly once until    *)
(* CompletedKeep later completions have pushed it out of the completed     *)
(* list, after which it occurs nowhere: the tokens located there and the   *)
(* tokens trimmed away together hold every once-enqueued id one time, and  *)
(* the completed list is the last CompletedKeep completions.               *)
(***************************************************************************)
C4_OnceUntilTrimmed ==
    LET located == C4_Located
        gone == C4_Gone
        ids == {Decode(located[i]).id : i \in 1..Len(located)}
                   \cup {Decode(gone[i]).id : i \in 1..Len(gone)}
    IN  /\ ids = {id \in DOMAIN enqCount : enqCount[id] = 1}
        /\ Cardinality(ids) = Len(located) + Len(gone)
        /\ completed_queue = SubSeq(doneLog, Len(C4_Trimmed) + 1, Len(doneLog))

\* the completed list is full, an earlier completion was trimmed away, and
\* the tasks completed last are in it
C4_Witness ==
    /\ Len(completed_queue) = CompletedKeep
    /\ Len(C4_Trimmed) >= 1
    /\ \E id \in TaskIds : enqCount[id] = 1 /\ CountId(completed_queue, id) = 1
    /\ \E id \in DOMAIN enqCount : enqCount[id] = 1 /\ C4_Occurrences(id) = 0

(***************************************************************************)
(* C5 - retries never lose a task, as claimed: every Retry that removes an *)
(* entry from the in-flight list adds an entry to the delay set.           *)
(***************************************************************************)
C5_RetryAddsEntry ==
    [][\A p \in Procs :
          (Retry(p, MaxRetryCount) /\ Len(processing_queue') < Len(processing_queue))
              => Cardinality(delayed_queue') = Cardinality(delayed_queue) + 1]_vars

C6_HeldAreInFlight ==
    \A p \in Procs :
        pc[p] = "holding" =>
            Cardinality({o \in Procs : pc[o] = "holding" /\ raw[o] = raw[p]})
                = CountRaw(processing_queue, raw[p])

C6_MoveStep ==
    /\ \A q \in QueueNames :
          Len(queue'[q]) < Len(queue[q]) =>
              /\ queue'[q] = Tail(queue[q])
              /\ processing_queue' = Append(processing_queue, Head(queue[q]))
              /\ Cardinality({p \in Procs : Delivered(p) /\ raw'[p] = Head(queue[q])}) = 1
    /\ \A p \in Procs :
          Delivered(p) =>
              /\ \E q \in QueueNames :
                    /\ queue[q] # <<>>
                    /\ queue'[q] = Tail(queue[q])
                    /\ raw'[p] = Head(queue[q])
              /\ task'[p] = Decode(raw'[p])
              /\ processing_queue' = Append(processing_queue, raw'[p])
              /\ \A o \in Procs \ {p} : ~Delivered(o)

(***************************************************************************)
(* C6 - unique delivery: an entry leaves a ready queue only as the head,   *)
(* in a step that appends it to the in-flight list and returns it to       *)
(* exactly one caller; a caller obtains a token only by such a step; and   *)
(* the tokens held by callers are, with multiplicity, the in-flight list.  *)
(***************************************************************************)
C6_UniqueDelivery == [](C6_HeldAreInFlight) /\ [][C6_MoveStep]_vars

\* two callers hold the two entries taken from the same ready queue
C6_Witness ==
    /\ pc["p1"] = "holding" /\ pc["p2"] = "holding"
    /\ task["p1"].priority = task["p2"].priority
    /\ task["p1"].retry_count = 0 /\ task["p2"].retry_count = 0
    /\ Len(processing_queue) = 2

C7_Removed == Members(delayed_queue) \ Members(delayed_queue')

C7_PromotionExact ==
    LET old == queue[QueueDefault]
        new == queue'[QueueDefault]
        added == {i \in 1..Len(new) : i > Len(old)}
    IN  /\ Len(new) = Len(old) + Cardinality(C7_Removed)
        /\ SubSeq(new, 1, Len(old)) = old
        /\ {new[i] : i \in added} = C7_Removed
        /\ queue'[QueueHigh] = queue[QueueHigh]
        /\ queue'[QueueLow] = queue[QueueLow]
        /\ delayed_queue' = {e \in delayed_queue : e.member \notin C7_Removed}

(***************************************************************************)
(* C7 - scheduler atomicity (P5): with two replicas ticking, each on its   *)
(* own reading of the clock, the members that leave the delay set in a     *)
(* step are appended to queue:default in that step, each once, and nothing *)
(* but an Enqueue appends to a ready queue otherwise.                      *)
(***************************************************************************)
C7_PromotedOnce ==
    [][(\/ C7_Removed # {}
        \/ NoEnqueueStep /\ \E q \in QueueNames : Len(queue'[q]) > Len(queue[q]))
          => C7_PromotionExact]_vars

\* a retried task is back in queue:default, once, and has left the delay set
C7_Witness ==
    \E i \in 1..Len(queue[QueueDefault]) :
        LET t == Decode(queue[QueueDefault][i])
        IN  /\ t.retry_count >= 1
            /\ CountId(queue[QueueDefault], t.id) = 1
            /\ DelayCount(t.id) = 0
            /\ enqCount[t.id] = 1

C8_OutcomeStep(p) == pc[p] = "handler" /\ pc'[p] # "handler"

C8_HandlerFailed(p) == handlerFails'[task[p].id] = handlerFails[task[p].id] + 1

C8_PolicyEffect(p) ==
    LET t == task[p]
        retried == [t EXCEPT !.retry_count = @ + 1]
    IN  /\ processing_queue' = LRemFirst(processing_queue, raw[p])
        /\ CountRaw(processing_queue', raw[p]) = CountRaw(processing_queue, raw[p]) - 1
        /\ queue' = queue
        /\ IF C8_HandlerFailed(p) /\ t.retry_count < 3
           THEN /\ [member |-> Encode(retried), score |-> now + Pow2(t.retry_count + 1)]
                      \in delayed_queue'
                /\ \A e \in delayed_queue' : e \in delayed_queue \/ e.member = Encode(retried)
                /\ dead_letter_queue' = dead_letter_queue
                /\ completed_queue' = completed_queue
           ELSE IF C8_HandlerFailed(p)
           THEN /\ dead_letter_queue' = Append(dead_letter_queue, Encode(t))
                /\ delayed_queue' = delayed_queue
                /\ completed_queue' = completed_queue
           ELSE /\ completed_queue' = Append(completed_queue, raw[p])
                /\ delayed_queue' = delayed_queue
                /\ dead_letter_queue' = dead_letter_queue

(***************************************************************************)
(* C8 - worker retry policy: the step that records a handler's outcome     *)
(* takes the task's token out of the in-flight list and, when the handler  *)
(* failed, adds the task with retry_count + 1 to the delay set if its      *)
(* retry_count is less than 3 and appends it to the dead-letter list       *)
(* otherwise; when the handler succeeded, appends the token to the         *)
(* completed list.  Nothing else changes on the broker, and a call made    *)
(* after cancellation changes nothing.                                     *)
(***************************************************************************)
C8_RetryPolicy ==
    [][\A p \in Workers :
          C8_OutcomeStep(p) =>
              IF cancelled[p] THEN UNCHANGED brokerVars ELSE C8_PolicyEffect(p)]_vars

\* a task whose handler failed four times: three retries, then dead
C8_Witness ==
    \E i \in 1..Len(dead_letter_queue) :
        LET t == Decode(dead_letter_queue[i])
        IN  /\ t.retry_count = 3
            /\ handlerFails[t.id] = 4
            /\ CountId(processing_queue, t.id) = 0

(***************************************************************************)
(* C9 - rate-limit denial is not counted as a failure, as claimed: every   *)
(* task in the dead-letter list has had its handler fail four times (the   *)
(* initial execution and 3 retries).                                       *)
(***************************************************************************)
C9_DeadAfterFourFailures ==
    \A i \in 1..Len(dead_letter_queue) :
        handlerFails[Decode(dead_letter_queue[i]).id] >= MaxRetries + 1

(***************************************************************************)
(* C10 - graceful shutdown, as claimed: once the worker loop has returned, *)
(* the token of the task it dequeued last is not in the in-flight list.    *)
(***************************************************************************)
C10_FinishedBeforeExit ==
    \A p \in Workers :
        (pc[p] = "exited" /\ raw[p] # NoRaw) => CountRaw(processing_queue, raw[p]) = 0

(***************************************************************************)
(* C11 - no silent drop under broker faults, as claimed: when the worker   *)
(* is back at the top of its loop, the token it dequeued last has left the *)
(* in-flight list, or the worker has logged the error of the Retry, Fail   *)
(* or Complete call that should have moved it.                             *)
(***************************************************************************)
C11_NoSilentDrop ==
    \A p \in Workers :
        (pc[p] = "dequeue" /\ raw[p] # NoRaw /\ CountRaw(processing_queue, raw[p]) > 0)
            => logged[p] \cap {"Retry", "Fail", "Complete"} # {}

\* every encoded task on the broker
C12_Tokens ==
    UNION {{queue[q][i] : i \in 1..Len(queue[q])} : q \in QueueNames}
        \cup {processing_queue[i] : i \in 1..Len(processing_queue)}
        \cup {dead_letter_queue[i] : i \in 1..Len(dead_letter_queue)}
        \cup {completed_queue[i] : i \in 1..Len(completed_queue)}
        \cup Members(delayed_queue)

(***************************************************************************)
(* C12 - retry count step (I3/P3): for a task enqueued once with           *)
(* retry_count 0, every encoded form of it on the broker - in the delay    *)
(* set in particular - has retry_count equal to the number N of Retry      *)
(* calls that ran for it; so each Retry adds exactly one and no other      *)
(* operation changes it.                                                   *)
(***************************************************************************)
C12_RetryCountIsRetries ==
    \A r \in C12_Tokens :
        enqCount[Decode(r).id] = 1 => Decode(r).retry_count = retries[Decode(r).id]

\* the delay set holds a task after its third Retry
C12_Witness ==
    \E e \in delayed_queue :
        /\ Decode(e.member).retry_count = 3
        /\ retries[Decode(e.member).id] = 3
        /\ enqCount[Decode(e.member).id] = 1

\* 2^k * 100 ms in nanoseconds, computed without loss at twice the width
C13_Exact(k) == DurationAt(k, 2 * Int64Bytes)

\* an int64 is the given non-negative number
C13_Equals(x, wide) ==
    /\ ~IsNegative(x)
    /\ \A i \in 1..Len(wide) : wide[i] = IF i <= Len(x) THEN x[i] ELSE 0

(***************************************************************************)
(* C13 - backoff (P4), as claimed: for every Retry that brings a task to   *)
(* retry count k >= 1, the score stored in the delay set is the time of    *)
(* the call plus 2^k * 100 ms in nanoseconds, hence strictly later than    *)
(* the time of the call.                                                   *)
(***************************************************************************)
C13_BackoffExact ==
    \A e \in delayed_queue :
        LET k == Decode(e.member).retry_count
        IN  /\ C13_Equals(e.score.backoff, C13_Exact(k))
            /\ ~IsZero(e.score.backoff)

\* a step that puts an entry into the delay set or moves one there
C14_AddsToDelay == delayed_queue' \ delayed_queue # {}
\* a step that takes an entry out of the in-flight list, other than by
\* Complete or Fail
C14_TakesFromInFlight ==
    /\ Len(processing_queue') < Len(processing_queue)
    /\ dead_letter_queue' = dead_letter_queue
    /\ completed_queue' = completed_queue

\* the whole effect of Retry(task[p], raw[p]) is in this step
C14_BothEffects(p) ==
    LET retried == [task[p] EXCEPT !.retry_count = @ + 1]
    IN  /\ pc[p] = "holding"
        /\ processing_queue' = LRemFirst(processing_queue, raw[p])
        /\ Len(processing_queue') = Len(processing_queue) - 1
        /\ [member |-> Encode(retried), score |-> now + Pow2(retried.retry_count)]
              \in delayed_queue'
        /\ \A e \in delayed_queue' : e \in delayed_queue \/ e.member = Encode(retried)
        /\ \A e \in delayed_queue : e.member \in Members(delayed_queue')

C15_LastHundred ==
    LET n == Len(doneLog)
        k == IF n < 100 THEN n ELSE 100
    IN  /\ Len(completed_queue) = k
        /\ k <= 100
        /\ \A i \in 1..k : completed_queue[i] = doneLog[n - k + i]

\* 101 completions: the first has been dropped from the head, the list
\* starts with the second and ends with the one completed last
C15_Witness ==
    /\ Len(doneLog) = 101
    /\ Len(completed_queue) = 100
    /\ completed_queue[1] = doneLog[2]
    /\ completed_queue[1] # doneLog[1]
    /\ Decode(completed_queue[100]).id \in TaskIds

\* the score a member has in the delay set
C16_Score(m) == (CHOOSE e \in delayed_queue : e.member = m).score

\* a step that takes members out of the delay set, or appends to
\* queue:default without being an Enqueue
C16_Promotes ==
    \/ Members(delayed_queue) \ Members(delayed_queue') # {}
    \/ NoEnqueueStep /\ Len(queue'[QueueDefault]) > Len(queue[QueueDefault])

\* the step is a tick run with time t
C16_TickEffect(t) ==
    LET due == {e \in delayed_queue : e.score <= t}
        old == queue[QueueDefault]
        new == queue'[QueueDefault]
        k == Len(new) - Len(old)
    IN  /\ delayed_queue' = delayed_queue \ due
        /\ \A e \in delayed_queue' : e.score > t
        /\ k = Cardinality(due)
        /\ SubSeq(new, 1, Len(old)) = old
        /\ {new[Len(old) + i] : i \in 1..k} = Members(due)
        /\ \A i, j \in 1..k :
              i < j => C16_Score(new[Len(old) + i]) <= C16_Score(new[Len(old) + j])

(***************************************************************************)
(* C16 - scheduler tick effect: a tick run with a time t, not later than   *)
(* the clock, removes from the delay set exactly the members whose score   *)
(* is <= t, appends exactly those to the right of queue:default in         *)
(* ascending-score order and leaves every member with a greater score in   *)
(* the delay set; so no task becomes Ready before its due time.            *)
(***************************************************************************)
C16_TickExact ==
    [][C16_Promotes => \E t \in 0..now : C16_TickEffect(t)]_vars

\* one retried task was due and is back in queue:default, another one, not
\* yet due, is still in the delay set
C16_Witness ==
    /\ \E e \in delayed_queue : e.score > now
    /\ Len(queue[QueueDefault]) = 1
    /\ Decode(queue[QueueDefault][1]).retry_count = 1
    /\ SumOver(retries, TaskIds) = 2

\* nothing but an Enqueue appends to queue:high or queue:low, and what
\* leaves the delay set is appended to queue:default
C17_PromotionStep ==
    /\ NoEnqueueStep =>
          /\ Len(queue'[QueueHigh]) <= Len(queue[QueueHigh])
          /\ Len(queue'[QueueLow]) <= Len(queue[QueueLow])
    /\ Members(delayed_queue) \ Members(delayed_queue') # {} =>
          LET old == queue[QueueDefault]
              new == queue'[QueueDefault]
          IN  /\ Len(new) > Len(old)
              /\ SubSeq(new, 1, Len(old)) = old
              /\ {new[i] : i \in Len(old) + 1..Len(new)}
                    = Members(delayed_queue) \ Members(delayed_queue')

\* queue:high and queue:low hold only tasks as Enqueue placed them
C17_OnlyEnqueued ==
    \A q \in {QueueHigh, QueueLow} :
        \A i \in 1..Len(queue[q]) :
            /\ Decode(queue[q][i]).retry_count = 0
            /\ QueueFor(Decode(queue[q][i])) = q

(***************************************************************************)
(* C17 - promotion ignores priority: a task leaving the delay set is       *)
(* appended to the tail of queue:default whatever its priority field, and  *)
(* queue:high and queue:low only ever contain entries placed there by      *)
(* Enqueue.                                                                *)
(***************************************************************************)
C17_PromotedToDefault == [](C17_OnlyEnqueued) /\ [][C17_PromotionStep]_vars

\* a retried High-priority task sits in queue:default behind a
\* Default-priority task enqueued before its promotion
C17_Witness ==
    /\ Len(queue[QueueDefault]) = 2
    /\ Decode(queue[QueueDefault][1]).priority = PriorityDefault
    /\ Decode(queue[QueueDefault][1]).retry_count = 0
    /\ Decode(queue[QueueDefault][2]).priority = PriorityHigh
    /\ Decode(queue[QueueDefault][2]).retry_count = 1

\* list without its i-th entry
C18_Without(list, i) == SubSeq(list, 1, i - 1) \o SubSeq(list, i + 1, Len(list))

\* a ready queue is extended at its right end or loses its head to the tail
\* of the in-flight list
C18_ReadyStep(q) ==
    \/ queue'[q] = queue[q]
    \/ /\ Len(queue'[q]) > Len(queue[q])
       /\ SubSeq(queue'[q], 1, Len(queue[q])) = queue[q]
    \/ /\ queue[q] # <<>>
       /\ queue'[q] = Tail(queue[q])
       /\ processing_queue' = Append(processing_queue, Head(queue[q]))

\* the in-flight list grows only at its tail, by the head of a ready
\* queue, and otherwise keeps the order of what stays in it
C18_InFlightStep ==
    \/ processing_queue' = processing_queue
    \/ \E q \in QueueNames :
          /\ queue[q] # <<>>
          /\ queue'[q] = Tail(queue[q])
          /\ processing_queue' = Append(processing_queue, Head(queue[q]))
    \/ \E i \in 1..Len(processing_queue) :
          processing_queue' = C18_Without(processing_queue, i)

(***************************************************************************)
(* C18 - FIFO within a priority: a ready queue receives entries at its     *)
(* right end and gives them up at its left end only, so of two entries     *)
(* appended to it the earlier one is moved to the in-flight list first,    *)
(* whichever callers dequeue; and the in-flight list receives each moved   *)
(* entry at its tail, so its order is the order of the moves.              *)
(***************************************************************************)
C18_FifoWithinPriority ==
    [][C18_InFlightStep /\ \A q \in QueueNames : C18_ReadyStep(q)]_vars

\* two different tasks of one priority were taken by two callers, and the
\* in-flight list holds them in the order they were taken
C18_Witness ==
    /\ pc["p1"] = "holding" /\ pc["p2"] = "holding"
    /\ task["p1"].id # task["p2"].id
    /\ QueueFor(task["p1"]) = QueueFor(task["p2"])
    /\ processing_queue = <<raw["p2"], raw["p1"]>>
    /\ \A q \in QueueNames : queue[q] = <<>>

\* the rate and burst the client passes
C19_Rate == allowLog[1].rate
C19_Burst == allowLog[1].burst

\* the first b calls, made within one second, are allowed
C19_BurstAllowed ==
    \A i \in 1..Len(allowLog) :
        i <= C19_Burst /\ allowLog[i].at - allowLog[1].at < UnitsPerSecond
            => allowLog[i].allowed

\* the call after the burst, made before 1/r seconds have passed since the
\* first one, is denied
C19_NextDenied ==
    LET n == C19_Burst + 1
    IN  Len(allowLog) >= n
        /\ (\A i \in 1..n : allowLog[i].at - allowLog[1].at < UnitsPerSecond)
        /\ (allowLog[n].at - allowLog[1].at) * C19_Rate < UnitsPerSecond
            => ~allowLog[n].allowed

\* a call made at least 1/r seconds after that denial is allowed
C19_OneMoreAfterWait ==
    LET n == C19_Burst + 1
    IN  Len(allowLog) >= n + 1
        /\ ~allowLog[n].allowed
        /\ (allowLog[n + 1].at - allowLog[n].at) * C19_Rate >= UnitsPerSecond
            => allowLog[n + 1].allowed

(***************************************************************************)
(* C19 - rate-limit shape (P6): on a key with rate r and burst b, b        *)
(* consecutive Allow calls within one second are all allowed, the          *)
(* (b+1)-th is denied, and a call made 1/r seconds after that is allowed,  *)
(* wherever the whole-second boundaries of the clock fall.                 *)
(***************************************************************************)
C19_RateLimitShape ==
    allowLog # <<>> => C19_BurstAllowed /\ C19_NextDenied /\ C19_OneMoreAfterWait

(***************************************************************************)
(* C20 - S5: with rate 1 and burst 1 on a fresh key the first Allow is     *)
(* allowed, a second one issued immediately afterwards (within one clock   *)
(* unit) is denied, and one issued at least 1.1 s after that is allowed.   *)
(***************************************************************************)
C20_AllowDenyAllow ==
    (allowLog # <<>> /\ allowLog[1].rate = 1 /\ allowLog[1].burst = 1) =>
        /\ allowLog[1].allowed
        /\ Len(allowLog) >= 2 /\ allowLog[2].at - allowLog[1].at <= 1
              => ~allowLog[2].allowed
        /\ Len(allowLog) >= 3 /\ allowLog[3].at - allowLog[2].at >= UnitsPerSecond + 1
              => allowLog[3].allowed

\* the last SetResult made for id, as a set of at most one log entry
C21_LastSet(id) ==
    {setLog[i] : i \in {j \in 1..Len(setLog) :
                          /\ setLog[j].id = id
                          /\ \A k \in j + 1..Len(setLog) : setLog[k].id # id}}

\* what GetResult answers, from the calls made so far
C21_RoundTrip ==
    \A id \in TaskIds :
        /\ C21_LastSet(id) = {} => ~GetResult(id).found
        /\ \A e \in C21_LastSet(id) :
              /\ now - e.at < ResultTTL =>
                    /\ GetResult(id).found
                    /\ GetResult(id).data = MarshalResult(e.v)
                    /\ UnmarshalResult(GetResult(id).data) = e.v
              /\ now - e.at > ResultTTL => ~GetResult(id).found

\* only SetResult writes a record
C21_OnlySetWrites == setLog' = setLog => results' = results

(***************************************************************************)
(* C21 - result store round trip (P7): GetResult(id) returns the JSON      *)
(* encoding of the value most recently set for id while less than 24       *)
(* hours have passed since that SetResult; it returns not-found for an id  *)
(* never set and once more than 24 hours have passed; and no queue         *)
(* operation writes or deletes a result record.                            *)
(***************************************************************************)
C21_ResultRoundTrip == [](C21_RoundTrip) /\ [][C21_OnlySetWrites]_vars

\* an id set twice, the second time less than a day ago with another value,
\* while the first SetResult is more than a day old
C21_Witness ==
    \E i, j \in 1..Len(setLog) :
        /\ i < j
        /\ setLog[i].id = setLog[j].id
        /\ setLog[i].v # setLog[j].v
        /\ setLog[j] \in C21_LastSet(setLog[j].id)
        /\ now - setLog[i].at > ResultTTL
        /\ now - setLog[j].at < ResultTTL
        /\ GetResult(setLog[j].id).found

\* this step is an Enqueue made by a cron job
C22_RegistrarEnqueue == Len(cronLog') = Len(cronLog) + 1

\* it appends one task with the template's fields, stamped at the job's own
\* firing, to the queue of the template's priority, while the registrar is
\* started and not stopped
C22_FiringEffect ==
    LET e == cronLog'[Len(cronLog')]
        template == cronEntries[e.job.entry].template
        t == Decode(e.pushed)
    IN  /\ queue' = [queue EXCEPT ![QueueFor(template)] = Append(@, e.pushed)]
        /\ t.id = template.id /\ t.type = template.type /\ t.payload = template.payload
        /\ t.priority = template.priority /\ t.retry_count = template.retry_count
        /\ t.created_at = e.job.stamped
        /\ e.state = "running"

(***************************************************************************)
(* C22 - cron firing: each firing appends exactly one task to the ready    *)
(* queue selected by the template's priority, with the template's id,      *)
(* type, payload, priority and retry_count and with created_at equal to    *)
(* the firing time; and the registrar enqueues nothing before Start or     *)
(* after Stop has returned.                                                *)
(***************************************************************************)
C22_CronFiring == [][C22_RegistrarEnqueue => C22_FiringEffect]_vars

\* this step serves a request; the request and the answer
C23_Served == Len(responses') = Len(responses) + 1
C23_Last == responses'[Len(responses')]

\* the key check lets the request through
C23_KeyOk(req) == apiKey = "" \/ (req.header # "none" /\ req.header = apiKey)

C23_Gate ==
    LET r == C23_Last
    IN  r.req.method # "OPTIONS" =>
            /\ r.reached <=> C23_KeyOk(r.req)
            /\ ~r.reached =>
                  /\ r.status = 401
                  /\ UNCHANGED <<brokerVars, enqCount, cronEntries, results>>
            /\ (r.reached /\ r.req.path = "/enqueue" /\ r.req.method = "POST"
                  /\ r.req.input = "empty") => r.status = 400

(***************************************************************************)
(* C23 - API-key gate: a non-OPTIONS request to any of the five endpoints  *)
(* reaches its handler if and only if the configured key is empty or the   *)
(* X-API-Key header equals it; otherwise the answer is 401 and nothing is  *)
(* enqueued or scheduled.  When the handler is reached, POST /enqueue with *)
(* an empty body answers 400.                                              *)
(***************************************************************************)
C23_ApiKeyGate == [][C23_Served => C23_Gate]_vars

\* under a configured key, POST /enqueue was answered 401 without the header
\* and 400 with the right key and an empty body, and nothing was enqueued
C23_Witness ==
    /\ apiKey # ""
    /\ \E i, j \in 1..Len(responses) :
          /\ responses[i].req = [method |-> "POST", path |-> "/enqueue",
                                 header |-> "none", input |-> "valid"]
          /\ responses[i].status = 401
          /\ responses[j].req = [method |-> "POST", path |-> "/enqueue",
                                 header |-> apiKey, input |-> "empty"]
          /\ responses[j].status = 400
    /\ \A q \in QueueNames : queue[q] = <<>>

\* this step serves an OPTIONS request
C24_Preflight ==
    /\ Len(responses') = Len(responses) + 1
    /\ responses'[Len(responses')].req.method = "OPTIONS"

(***************************************************************************)
(* C24 - preflight precedes auth: an OPTIONS request to any endpoint is    *)
(* answered 200 with or without a valid X-API-Key and never runs the       *)
(* endpoint's handler: nothing is enqueued and no job is scheduled.        *)
(***************************************************************************)
C24_PreflightFirst ==
    [][C24_Preflight =>
          /\ responses'[Len(responses')].status = 200
          /\ ~responses'[Len(responses')].reached
          /\ UNCHANGED <<brokerVars, enqCount, cronEntries, results>>]_vars

\* under a configured key, OPTIONS was answered 200 both without a key and
\* with a wrong one
C24_Witness ==
    /\ apiKey # ""
    /\ \E i, j \in 1..Len(responses) :
          /\ responses[i].req.method = "OPTIONS" /\ responses[i].req.header = "none"
          /\ responses[j].req.method = "OPTIONS" /\ responses[j].req.header = "wrong-key"
          /\ responses[i].status = 200 /\ responses[j].status = 200

\* the processes that died holding token r
C25_CrashedWith(r) == {p \in Procs : pc[p] = "crashed" /\ raw[p] = r}

\* every token a dead process held is still in the in-flight list, and a task
\* enqueued once that a dead process held is nowhere else
C25_StillInFlight ==
    \A p \in Procs :
        pc[p] = "crashed" =>
            /\ Cardinality(C25_CrashedWith(raw[p])) <= CountRaw(processing_queue, raw[p])
            /\ enqCount[task[p].id] = 1 =>
                  /\ ReadyCount(task[p].id) = 0
                  /\ DelayCount(task[p].id) = 0
                  /\ CountId(dead_letter_queue, task[p].id) = 0
                  /\ CountId(completed_queue, task[p].id) = 0
                  /\ \A o \in Procs \ {p} : task[o].id # task[p].id

\* a dead process stays dead with what it held, and what is delivered comes
\* from the head of a ready queue
C25_NoRedelivery ==
    /\ \A p \in Procs :
          pc[p] = "crashed" => pc'[p] = "crashed" /\ raw'[p] = raw[p] /\ task'[p] = task[p]
    /\ \A p \in Procs :
          Delivered(p) => \E q \in QueueNames :
                             queue[q] # <<>> /\ raw'[p] = Head(queue[q])
                                /\ queue'[q] = Tail(queue[q])

(***************************************************************************)
(* C25 - crash leaves the task in flight: the token held by a worker that  *)
(* died between Dequeue and Complete/Retry/Fail stays in the in-flight     *)
(* list in every later state; no operation, scheduler tick or other worker *)
(* moves it out or delivers it again.                                      *)
(***************************************************************************)
C25_CrashKeepsInFlight == [](C25_StillInFlight) /\ [][C25_NoRedelivery]_vars

\* a worker died holding a task; since then the other one finished a task
\* and the clock moved on
C25_Witness ==
    /\ pc["p1"] = "crashed"
    /\ CountRaw(processing_queue, raw["p1"]) = 1
    /\ doneLog # <<>>
    /\ doneLog[Len(doneLog)] # raw["p1"]
    /\ now > 0

\* the dead-letter list keeps what it had, in place
C26_PrefixKept ==
    /\ Len(dead_letter_queue') >= Len(dead_letter_queue)
    /\ SubSeq(dead_letter_queue', 1, Len(dead_letter_queue)) = dead_letter_queue

\* it grows by one entry at the tail, in the Fail of a holder, together with
\* the removal of that holder's token from the in-flight list
C26_FailStep ==
    dead_letter_queue' # dead_letter_queue =>
        \E p \in Procs :
            /\ pc[p] = "holding" /\ pc'[p] # "holding"
            /\ dead_letter_queue' = Append(dead_letter_queue, Encode(task[p]))
            /\ processing_queue' = LRemFirst(processing_queue, raw[p])
            /\ CountRaw(processing_queue', raw[p]) = CountRaw(processing_queue, raw[p]) - 1
            /\ UNCHANGED <<queue, delayed_queue, completed_queue>>

\* a dead task that was enqueued once is neither ready, in flight nor delayed
C26_DeadIsFinal ==
    \A i \in 1..Len(dead_letter_queue) :
        LET id == dead_letter_queue[i][1]
        IN  enqCount[id] = 1 =>
                /\ ReadyCount(id) = 0
                /\ CountId(processing_queue, id) = 0
                /\ DelayCount(id) = 0
                /\ \A p \in Procs : pc[p] = "holding" => task[p].id # id

(***************************************************************************)
(* C26 - the dead-letter list is append-only: Fail appends the serialized  *)
(* task at its tail and removes one occurrence of the token from the       *)
(* in-flight list in the same step; in every step the old content is a     *)
(* prefix of the new one; and a Dead task is never Ready, InFlight or      *)
(* Delayed again.                                                          *)
(***************************************************************************)
C26_DeadLetterAppendOnly ==
    [](C26_DeadIsFinal) /\ [][C26_PrefixKept /\ C26_FailStep]_vars

\* two tasks failed one after the other and nothing is left in flight
C26_Witness ==
    /\ Len(dead_letter_queue) = 2
    /\ dead_letter_queue[1][1] # dead_letter_queue[2][1]
    /\ processing_queue = <<>>
    /\ \A id \in TaskIds : enqCount[id] = 1

\* the queue the claim names for a priority value
C27_Target(priority) ==
    CASE priority = 2 -> "queue:high"
      [] priority = 0 -> "queue:low"
      [] OTHER -> "queue:default"

\* the step appends one entry to the tail of the queue named for its
\* priority and changes nothing else
C27_Routed ==
    \E q \in QueueNames :
        /\ Len(queue'[q]) = Len(queue[q]) + 1
        /\ LET x == queue'[q][Len(queue'[q])]
           IN  /\ queue' = [queue EXCEPT ![q] = Append(@, x)]
               /\ q = C27_Target(Decode(x).priority)
               /\ enqCount' = [enqCount EXCEPT ![Decode(x).id] = @ + 1]
        /\ UNCHANGED <<processing_queue, delayed_queue, dead_letter_queue, completed_queue,
                       storeVars, now, workerVars, cancelled, serviceVars>>

C28_Acked(p) == pc[p] = "holding" /\ pc'[p] = "dequeue"

C28_EnqueueStep ==
    enqCount' # enqCount =>
        \E t \in TaskInputs :
            /\ enqCount' = [enqCount EXCEPT ![t.id] = @ + 1]
            /\ queue' = [queue EXCEPT ![QueueFor(t)] = Append(@, Encode(t))]

C28_DequeueStep ==
    \A p \in Procs :
        Delivered(p) =>
            /\ \E q \in QueueNames :
                    /\ queue[q] # <<>>
                    /\ raw'[p] = Head(queue[q])
                    /\ queue' = [queue EXCEPT ![q] = Tail(@)]
            /\ processing_queue' = Append(processing_queue, raw'[p])
            /\ \E t \in TaskInputs : raw'[p] = Encode(t)
            /\ task'[p].id = raw'[p][1]
            /\ enqCount[task'[p].id] > 0

C28_AckStep ==
    \A p \in Procs :
        C28_Acked(p) =>
            /\ \E i \in 1..Len(processing_queue) :
                    /\ processing_queue[i] = raw[p]
                    /\ \A j \in 1..(i - 1) : processing_queue[j] # raw[p]
                    /\ processing_queue' = C18_Without(processing_queue, i)
            /\ UNCHANGED <<queue, delayed_queue, dead_letter_queue, completed_queue,
                           storeVars>>
            /\ EnqCalls = 1 =>
                    /\ processing_queue' = <<>>
                    /\ \A q \in QueueNames : queue'[q] = <<>>

C28_SingleTask ==
    EnqCalls = 1 =>
        /\ \A p \in Procs :
                pc[p] = "holding" =>
                    /\ enqCount[task[p].id] = 1
                    /\ processing_queue = <<raw[p]>>
                    /\ \A q \in QueueNames : queue[q] = <<>>
        /\ (\A p \in Procs : pc[p] # "holding") => processing_queue = <<>>

C28_RoundTrip ==
    /\ [](C28_SingleTask)
    /\ [][C28_EnqueueStep /\ C28_DequeueStep /\ C28_AckStep]_vars

\* one task was enqueued, dequeued and acknowledged
C28_Witness ==
    /\ EnqCalls = 1
    /\ \A q \in QueueNames : queue[q] = <<>>
    /\ processing_queue = <<>>
    /\ \A p \in Procs : pc[p] = "dequeue"

(***************************************************************************)
(* C29 - task fields survive retries: a Dequeue and a promotion move a     *)
(* token as it is, and the token a Retry stores has the id, type, payload, *)
(* priority and created_at of the token it replaces; only retry_count      *)
(* differs.                                                                *)
(***************************************************************************)
\* the fields of two tokens other than retry_count are the same JSON
C29_SameFields(a, b) ==
    /\ a[1] = b[1] /\ a[2] = b[2] /\ a[3] = b[3] /\ a[4] = b[4] /\ a[6] = b[6]

C29_RetryStep ==
    \A p \in Procs :
        (pc[p] = "holding" /\ pc'[p] # "holding" /\ retries' # retries) =>
            \E e \in delayed_queue' :
                /\ C29_SameFields(e.member, raw[p])
                /\ e.member[5] = raw[p][5] + 1

C29_MoveStep ==
    /\ \A p \in Procs : Delivered(p) =>
            \E q \in QueueNames : queue[q] # <<>> /\ raw'[p] = Head(queue[q])
    /\ \A q \in QueueNames :
            \A i \in 1..Len(queue'[q]) :
                \/ \E j \in 1..Len(queue[q]) : queue[q][j] = queue'[q][i]
                \/ \E e \in delayed_queue : e.member = queue'[q][i]
                \/ enqCount' # enqCount

C29_FieldsSurvive == [][C29_RetryStep /\ C29_MoveStep]_vars

(***************************************************************************)
(* C30 - Dequeue makes no partial progress: a step of a Dequeue call that  *)
(* hands no task to its caller leaves the ready queues and the in-flight   *)
(* list as they were.                                                      *)
(***************************************************************************)
\* a BLMOVE was answered in this step: with an element, or with redis.Nil
C30_DequeueStep ==
    \/ \E q \in QueueNames : Len(queue'[q]) < Len(queue[q])
    \/ \E p \in Procs : pc[p] = "dequeue" /\ pc'[p] = "dequeue" /\ qi'[p] # qi[p]

C30_NoPartialProgress ==
    [][(C30_DequeueStep /\ \A p \in Procs : ~Delivered(p)) =>
            UNCHANGED <<queue, processing_queue>>]_vars

(***************************************************************************)
(* C31 - missing identity token: a Complete, Retry or Fail called with a   *)
(* token that is not in the in-flight list appends nothing to the          *)
(* completed list, the delay set or the dead-letter list.                  *)
(***************************************************************************)
\* p holds a token of which the in-flight list has no occurrence
C31_TokenMissing(p) ==
    /\ pc[p] = "holding"
    /\ \A i \in 1..Len(processing_queue) : processing_queue[i] # raw[p]

\* the step is a Complete, Retry or Fail call
C31_OutcomeCall ==
    \/ doneLog' # doneLog
    \/ retries' # retries
    \/ \E p \in Procs : pc[p] = "holding" /\ pc'[p] = "dequeue"

C31_MissingTokenAborts ==
    [][((\A p \in Procs : pc[p] = "holding" => C31_TokenMissing(p)) /\ C31_OutcomeCall)
            => UNCHANGED <<completed_queue, delayed_queue, dead_letter_queue>>]_vars

(***************************************************************************)
(* C32 - rate-limit denial path: Allow answers denied exactly when the     *)
(* bucket holds no token, without an error being logged; a denied task is  *)
(* not handed to the handler in that cycle but goes through Retry, which   *)
(* moves it from the in-flight list to the delay set with retry_count + 1  *)
(* whatever its retry_count; an allowed task is handed to the handler.     *)
(***************************************************************************)
\* the answer the token bucket gives worker p in the current state
C32_Answer(p) ==
    AllowScript(ratelimit[task[p].type], RateLimit, RateBurst, UnixSeconds, 1)

C32_AllowStep ==
    \A p \in Procs :
        (pc[p] = "holding" /\ pc'[p] # "holding") =>
            /\ pc'[p] = (IF C32_Answer(p).allowed THEN "handler" ELSE "denied")
            /\ ratelimit'[task[p].type] = C32_Answer(p).rec
            /\ UNCHANGED <<brokerVars, task, raw, handlerFails, logged>>

C32_DeniedStep ==
    \A p \in Procs :
        (pc[p] = "denied" /\ pc'[p] # "denied") =>
            LET retried == [task[p] EXCEPT !.retry_count = @ + 1]
            IN  /\ pc'[p] = "dequeue"
                /\ \E e \in delayed_queue' : e.member = Encode(retried)
                /\ processing_queue' = LRemFirst(processing_queue, raw[p])
                /\ retries' = [retries EXCEPT ![task[p].id] = @ + 1]
                /\ UNCHANGED <<queue, dead_letter_queue, completed_queue, handlerFails>>

C32_DenialPath == [][C32_AllowStep /\ C32_DeniedStep]_vars

\* a task denied with its three retries used up is in the delay set
C32_Witness ==
    /\ \E e \in delayed_queue : e.member[5] = MaxRetries + 1
    /\ \A id \in TaskIds : handlerFails[id] = 0

(***************************************************************************)
(* C37 - bounded retry count, as claimed: under the worker loop, with      *)
(* tasks enqueued with retry_count 0 and the rate limiter active, no task  *)
(* stored on the broker has a retry_count above 3 and every task in the    *)
(* dead-letter list has a retry_count of exactly 3.                        *)
(***************************************************************************)
C37_BoundedRetry ==
    /\ \A r \in C12_Tokens : Decode(r).retry_count <= MaxRetries
    /\ \A i \in 1..Len(dead_letter_queue) :
            Decode(dead_letter_queue[i]).retry_count = MaxRetries

(***************************************************************************)
(* C33 - the rate-limit check fails open: a worker whose Allow call        *)
(* returns an error (the broker call failed, or its context is cancelled)  *)
(* logs the error and hands the task it holds to the handler in the same   *)
(* cycle; it neither retries nor drops the task.  The only way from a      *)
(* Dequeue to the denial branch is a bucket script that ran and answered   *)
(* denied.                                                                 *)
(***************************************************************************)
\* the Allow call of worker p returned an error in this step
C33_AllowError(p) ==
    /\ pc[p] = "holding" /\ pc'[p] # "holding"
    /\ \/ cancelled[p]
       \/ logged'[p] # logged[p]
       \/ C32_Answer(p).rec # ratelimit[task[p].type] /\ UNCHANGED ratelimit

C33_ErrorStep ==
    \A p \in Procs :
        C33_AllowError(p) =>
            /\ pc'[p] = "handler"
            /\ "Allow" \in logged'[p]
            /\ UNCHANGED <<brokerVars, storeVars, task, raw, opHistory, handlerFails>>

C33_DeniedOnlyByScript ==
    \A p \in Procs :
        (pc[p] = "holding" /\ pc'[p] \notin {"holding", "handler"}) =>
            /\ pc'[p] = "denied"
            /\ ~C32_Answer(p).allowed
            /\ ratelimit'[task[p].type] = C32_Answer(p).rec
            /\ logged'[p] = logged[p]

C33_FailsOpen == [][C33_ErrorStep /\ C33_DeniedOnlyByScript]_vars

\* a worker runs the handler after a failed Allow call, on a bucket that is
\* empty for the current second, with its task still in flight
C33_Witness ==
    \E p \in Procs :
        /\ pc[p] = "handler"
        /\ "Allow" \in logged[p]
        /\ ratelimit[task[p].type] = [tokens |-> 0, last_refill |-> UnixSeconds]
        /\ CountRaw(processing_queue, raw[p]) = 1

(***************************************************************************)
(* C34 - Inspect is bounded and read-only, as claimed: for every queue     *)
(* name and every limit, zero and negative limits included, InspectQueue   *)
(* returns at most limit tasks, which are the entries that decode among    *)
(* the first limit entries from the head of the list (of the delay set in  *)
(* ascending score order), and the call leaves every queue unchanged.      *)
(***************************************************************************)
\* the entries of the structure a name stands for, from the head
C34_Entries(queueName) ==
    CASE queueName = "delayed_queue" -> ZSorted(delayed_queue)
      [] queueName \in QueueNames -> queue[queueName]
      [] queueName = "processing_queue" -> processing_queue
      [] queueName = "dead_letter_queue" -> dead_letter_queue
      [] queueName = "completed_queue" -> completed_queue
      [] OTHER -> <<>>

\* the entries that decode among the first limit entries
C34_Head(queueName, limit) ==
    LET entries == C34_Entries(queueName)
        first == SubSeq(entries, 1, Min(Max(limit, 0), Len(entries)))
        decoded == SelectSeq(first, LAMBDA r : ~DecodeFails(r))
    IN  [i \in 1..Len(decoded) |-> Decode(decoded[i])]

C34_InspectStep ==
    (Len(responses') = Len(responses) + 1
        /\ responses'[Len(responses')].call = "InspectQueue") =>
        LET answer == responses'[Len(responses')]
        IN  /\ Len(answer.tasks) <= Max(answer.limit, 0)
            /\ answer.tasks = C34_Head(answer.queue, answer.limit)
            /\ UNCHANGED brokerVars

C34_InspectBounded == [][C34_InspectStep]_vars

\* the part that holds: for a limit of at least 1 the answer is the head as
\* described, an entry that does not decode is left out, and no call
\* changes a queue
C34_PositiveLimit ==
    [][(Len(responses') = Len(responses) + 1
            /\ responses'[Len(responses')].call = "InspectQueue") =>
            /\ UNCHANGED brokerVars
            /\ responses'[Len(responses')].limit >= 1 => C34_InspectStep]_vars

(***************************************************************************)
(* C35 - queue depths cover every queue, as claimed: GetQueueDepths        *)
(* returns one entry for each of queue:high, queue:default, queue:low,     *)
(* processing_queue, delayed_queue, dead_letter_queue and completed_queue, *)
(* each equal to the length of that structure when it was read, and the    *)
(* call changes no queue.                                                  *)
(***************************************************************************)
C35_Names ==
    {"queue:high", "queue:default", "queue:low", "processing_queue", "delayed_queue",
     "dead_letter_queue", "completed_queue"}

C35_DepthsStep ==
    (Len(responses') = Len(responses) + 1
        /\ responses'[Len(responses')].call = "GetQueueDepths") =>
        LET depths == responses'[Len(responses')].depths
        IN  /\ DOMAIN depths = C35_Names
            /\ \A q \in DOMAIN depths :
                   depths[q] = IF q = "delayed_queue" THEN Cardinality(delayed_queue)
                               ELSE Len(C34_Entries(q))
            /\ UNCHANGED brokerVars

C35_DepthsCoverAll == [][C35_DepthsStep]_vars

(***************************************************************************)
(* C38 - token-bucket state invariant: after any sequence of Allow calls   *)
(* on a key with fixed rate and burst and non-decreasing clock readings,   *)
(* the stored tokens value is between 0 and burst and last_refill is the   *)
(* clock reading of the most recent call; an allowed call stores the       *)
(* refilled token count less 1 and a denied call stores it unchanged.      *)
(***************************************************************************)
C38_Bucket == ratelimit[RateLimitKey]

C38_Stored ==
    allowLog # <<>> =>
        /\ C38_Bucket # NoBucket
        /\ 0 <= C38_Bucket.tokens
        /\ C38_Bucket.tokens <= allowLog[1].burst
        /\ C38_Bucket.last_refill = allowLog[Len(allowLog)].at \div UnitsPerSecond

\* the bucket topped up for the seconds that passed since the last call
C38_Refilled(rate, burst) ==
    IF C38_Bucket = NoBucket THEN burst
    ELSE IF C38_Bucket.tokens + (UnixSeconds - C38_Bucket.last_refill) * rate > burst
         THEN burst
         ELSE C38_Bucket.tokens + (UnixSeconds - C38_Bucket.last_refill) * rate

C38_CallStep ==
    Len(allowLog') = Len(allowLog) + 1 =>
        LET call == allowLog'[Len(allowLog')]
        IN  ratelimit'[RateLimitKey].tokens =
                C38_Refilled(call.rate, call.burst) - (IF call.allowed THEN 1 ELSE 0)

C38_BucketInvariant == [](C38_Stored) /\ [][C38_CallStep]_vars

\* a call was denied and a later call, seconds after, allowed on a bucket
\* refilled up to its capacity
C38_Witness ==
    \E i, j \in 1..Len(allowLog) :
        /\ i < j /\ j = Len(allowLog)
        /\ ~allowLog[i].allowed /\ allowLog[j].allowed
        /\ allowLog[j].at \div UnitsPerSecond > allowLog[i].at \div UnitsPerSecond + 1
        /\ C38_Bucket.tokens = allowLog[1].burst - 1

(***************************************************************************)
(* C39 - the rate limit is never exceeded: the number of calls allowed     *)
(* from the first call on a key, made in second t0, up to any later call,  *)
(* made in second t1, is at most burst + rate * (t1 - t0).                 *)
(***************************************************************************)
C39_Second(i) == allowLog[i].at \div UnitsPerSecond

C39_AllowedUpTo(j) == Cardinality({i \in 1..j : allowLog[i].allowed})

C39_NeverExceeded ==
    \A j \in 1..Len(allowLog) :
        C39_AllowedUpTo(j) <=
            allowLog[1].burst + allowLog[1].rate * (C39_Second(j) - C39_Second(1))

\* calls spread over more than one second, some denied, with as many
\* allowed as the bound permits
C39_Witness ==
    /\ Len(allowLog) = MaxAllowCalls
    /\ \E i \in 1..Len(allowLog) : ~allowLog[i].allowed
    /\ C39_Second(Len(allowLog)) > C39_Second(1)
    /\ C39_AllowedUpTo(Len(allowLog)) =
            allowLog[1].burst + allowLog[1].rate * (C39_Second(Len(allowLog)) - C39_Second(1))

(***************************************************************************)
(* C36 - loops terminate on cancellation, as claimed: once the context is  *)
(* cancelled the worker loop starts no handler but returns when the        *)
(* handler that is running has returned, and the scheduler loop and the    *)
(* metrics collector start no further tick; a loop has returned only if    *)
(* the context is cancelled, whatever errors the scheduler's script met.   *)
(***************************************************************************)
C36_StartsTick(g) == pc[g] = "select" /\ pc'[g] \in {"tick", "late tick"}

C36_StartsHandler(p) == pc[p] # "handler" /\ pc'[p] = "handler"

C36_CallsDequeue(p) == pc[p] = "dequeue" /\ pc'[p] = "blmove"

C36_OnlyCancellationStops ==
    \A p \in Workers :
        (pc[p] = "exited" \/ \E g \in Loops : pc[g] = "returned") => cancelled[p]

C36_NothingStartsStep ==
    \A p \in Workers :
        cancelled[p] =>
            /\ ~C36_CallsDequeue(p)
            /\ ~C36_StartsHandler(p)
            /\ \A g \in Loops : ~C36_StartsTick(g)

C36_CancelledStep ==
    \A p \in Workers :
        cancelled[p] =>
            /\ ~C36_CallsDequeue(p)
            /\ pc[p] = "dequeue" => pc'[p] \in {"dequeue", "exited"}
            /\ pc[p] = "exited" => pc'[p] = "exited"
            /\ \A g \in Loops :
                   /\ pc[g] = "returned" => pc'[g] = "returned"
                   /\ pc[g] = "late tick" /\ pc'[g] # pc[g] => UNCHANGED brokerVars

C40_In(list, id) == \E i \in 1..Len(list) : list[i][1] = id

C40_Pending(id) ==
    \/ \E q \in QueueNames : C40_In(queue[q], id)
    \/ C40_In(processing_queue, id)
    \/ \E e \in delayed_queue : e.member[1] = id

C40_Outcome(id) == C40_In(completed_queue, id) \/ C40_In(dead_letter_queue, id)

C40_EventualOutcome ==
    \A id \in TaskIds :
        [](enqCount[id] > 0 => <>[](C40_Outcome(id) /\ ~C40_Pending(id)))

\* the part that holds: the tasks whose encoding Dequeue can decode
C40_Poisoned(id) ==
    \E i \in 1..Len(processing_queue) :
        processing_queue[i][1] = id /\ DecodeFails(processing_queue[i])

C40_DecodableOutcome ==
    \A id \in TaskIds :
        [](enqCount[id] > 0 =>
              <>[]((C40_Outcome(id) /\ ~C40_Pending(id)) \/ C40_Poisoned(id)))

====
